---- MODULE Spec2Model ----
(***************************************************************************)
(* ThreatVault plugins: format adapters process(file, file_type) that turn *)
(* scanner output (CSV, JSON, XML) into rows of the ThreatVault VAPT       *)
(* schema.  Text is modelled by TLA+ strings, handled character by         *)
(* character through Len, SubSeq and \o.  A missing value (Python None,    *)
(* polars null) is the value Null.  The bug-bounty exporter ywh2csv.py is  *)
(* modelled by the loop of export_reports_to_csv, one report per step, by  *)
(* the part of main that settles the flags and calls the export, and by    *)
(* the paging loop of get_program_reports, one request per step.           *)
(***************************************************************************)
EXTENDS Integers, Sequences, FiniteSets, TLC

VARIABLES adapter, file_type, file, pc, outcome, parsed, columns, rows

\* export_reports_to_csv of the bug-bounty exporter: its arguments, its
\* position, its locals, its return value and the file it writes
VARIABLES reports, fetch_details, apply_filter, epc, report_idx, detailed, branch,
          csv_rows, skipped_criticality, skipped_status, failed_details,
          export_result, output_file

\* main of the exporter from the end of the collection of reports on: who
\* called export_reports_to_csv, the flags of the command line, whether the
\* conflict of the two flags was warned about, the exit code
VARIABLES caller, no_filter, no_details, conflict_warned, exit_code

\* get_program_reports against a server: the reports the server holds for
\* the program, the limit argument, the longest page the server returns,
\* whether its answers carry pagination.total; the locals offset and
\* all_reports, the position, the last response, the offsets requested so
\* far and the return value
VARIABLES server_reports, limit, page_cap, has_total, offset, all_reports, gpc,
          response, requested, program_reports

avars == <<adapter, file_type, file, pc, outcome, parsed, columns, rows>>

mvars == <<caller, no_filter, no_details, conflict_warned, exit_code>>

pvars == <<server_reports, limit, page_cap, has_total, offset, all_reports, gpc,
           response, requested, program_reports>>

evars == <<reports, fetch_details, apply_filter, epc, report_idx, detailed, branch,
           csv_rows, skipped_criticality, skipped_status, failed_details,
           export_result, output_file>>

vars == <<avars, evars, mvars, pvars>>

\* ------------------------------------------------------------------------
\* Bounds of the model
\* ------------------------------------------------------------------------
MaxRecords == 2

\* rows of a compliance export built from the three-part Description form
MaxFormRows == 1

\* reports handed to one export
MaxReports == 2

\* reports the server holds for one program
MaxServerReports == 4

\* the limit argument of get_program_reports and the longest page the
\* server is willing to return
MaxLimit == 3

\* ------------------------------------------------------------------------
\* Values and text primitives
\* ------------------------------------------------------------------------
Null == "<<None>>"

NullInt == -1

Char(s, i) == SubSeq(s, i, i)

StartsWithAt(s, pat, i) ==
    /\ i >= 1
    /\ i + Len(pat) - 1 <= Len(s)
    /\ SubSeq(s, i, i + Len(pat) - 1) = pat

Contains(s, pat) == \E i \in 1..(Len(s) + 1) : StartsWithAt(s, pat, i)

UpperAlphabet == "ABCDEFGHIJKLMNOPQRSTUVWXYZ"

LowerAlphabet == "abcdefghijklmnopqrstuvwxyz"

UpperChar(c) ==
    IF \E k \in 1..26 : Char(LowerAlphabet, k) = c
    THEN Char(UpperAlphabet, CHOOSE k \in 1..26 : Char(LowerAlphabet, k) = c)
    ELSE c

LowerChar(c) ==
    IF \E k \in 1..26 : Char(UpperAlphabet, k) = c
    THEN Char(LowerAlphabet, CHOOSE k \in 1..26 : Char(UpperAlphabet, k) = c)
    ELSE c

RECURSIVE upper(_)
upper(s) == IF s = "" THEN "" ELSE UpperChar(Char(s, 1)) \o upper(Tail(s))

RECURSIVE lower(_)
lower(s) == IF s = "" THEN "" ELSE LowerChar(Char(s, 1)) \o lower(Tail(s))

\* polars str.to_uppercase: null stays null
to_uppercase(v) == IF v = Null THEN Null ELSE upper(v)

\* str.replace_all(pat, rep) with a literal one-character pattern
RECURSIVE ReplaceChar(_, _, _)
ReplaceChar(s, c, rep) ==
    IF s = "" THEN ""
    ELSE (IF Char(s, 1) = c THEN rep ELSE Char(s, 1)) \o ReplaceChar(Tail(s), c, rep)

replace_all(v, c, rep) == IF v = Null THEN Null ELSE ReplaceChar(v, c, rep)

IsSpace(c) == c \in {" ", "\n", "\t", "\r"}

RECURSIVE LStrip(_)
LStrip(s) == IF s # "" /\ IsSpace(Char(s, 1)) THEN LStrip(Tail(s)) ELSE s

RECURSIVE RStrip(_)
RStrip(s) ==
    IF s # "" /\ IsSpace(Char(s, Len(s))) THEN RStrip(SubSeq(s, 1, Len(s) - 1)) ELSE s

strip_chars(v) == IF v = Null THEN Null ELSE RStrip(LStrip(v))

\* Python truthiness of an optional string
Truthy(v) == v # Null /\ v # ""

\* dict.get(key, default)
Get(d, k, default) == IF k \in DOMAIN d THEN d[k] ELSE default

\* ------------------------------------------------------------------------
\* Data frames (polars): an ordered list of column names and a sequence of
\* rows, each row a function from the column names to values
\* ------------------------------------------------------------------------
Range(f) == {f[i] : i \in DOMAIN f}

SeqsUpTo(S, n) == UNION {[1..k -> S] : k \in 0..n}

RECURSIVE SelectIdx(_, _)
\* the positions of the sequence keep (of booleans) that hold TRUE, in order
SelectIdx(keep, n) ==
    IF n = 0 THEN <<>>
    ELSE IF keep[n] THEN Append(SelectIdx(keep, n - 1), n) ELSE SelectIdx(keep, n - 1)

Frame(cols, rs) == [columns |-> cols, rows |-> rs]

\* DataFrame.filter: the rows whose flag is TRUE, in their order
filter(fr, keep) ==
    LET idx == SelectIdx(keep, Len(fr.rows))
    IN  Frame(fr.columns, [k \in 1..Len(idx) |-> fr.rows[idx[k]]])

\* with_columns for one expression: replaces a column of that name in place,
\* otherwise appends it; vals[i] is the value of the expression on row i
with_column(fr, c, vals) ==
    LET cols == IF c \in Range(fr.columns) THEN fr.columns ELSE Append(fr.columns, c)
    IN  Frame(cols, [i \in 1..Len(fr.rows) |->
                        [k \in Range(cols) |-> IF k = c THEN vals[i] ELSE fr.rows[i][k]]])

\* rename one column, in place
rename(fr, old, new) ==
    LET cols == [j \in 1..Len(fr.columns) |->
                    IF fr.columns[j] = old THEN new ELSE fr.columns[j]]
    IN  Frame(cols, [i \in 1..Len(fr.rows) |->
                        [k \in Range(cols) |-> IF k = new THEN fr.rows[i][old] ELSE fr.rows[i][k]]])

\* drop columns
drop(fr, dropped) ==
    LET cols == SelectSeq(fr.columns, LAMBDA c : c \notin dropped)
    IN  Frame(cols, [i \in 1..Len(fr.rows) |-> [k \in Range(cols) |-> fr.rows[i][k]]])

\* select columns, in the order given
select(fr, cols) ==
    Frame(cols, [i \in 1..Len(fr.rows) |-> [k \in Range(cols) |-> fr.rows[i][k]]])

\* what process hands back; parsed tells whether the file's bytes were parsed
Result(o, p, fr) == [outcome |-> o, parsed |-> p, columns |-> fr.columns, rows |-> fr.rows]

Failure(o, p) == [outcome |-> o, parsed |-> p, columns |-> <<>>, rows |-> <<>>]

VALID_RISKS == {"CRITICAL", "HIGH", "MEDIUM", "LOW"}

\* the schema of the empty DataFrame the adapters build for no records
CANONICAL_SCHEMA ==
    <<"cve", "risk", "host", "port", "name", "description", "remediation",
      "evidence", "vpr_score">>

\* ------------------------------------------------------------------------
\* Plugins/Compliance/Nessus/nessus.py
\* ------------------------------------------------------------------------
ACTUAL_VALUE == "Actual Value:"

\* the index of the n-th newline of s, 0 when there is none
RECURSIVE NthNewline(_, _, _)
NthNewline(s, n, from) ==
    IF from > Len(s) THEN 0
    ELSE IF Char(s, from) = "\n"
         THEN (IF n = 1 THEN from ELSE NthNewline(s, n - 1, from + 1))
         ELSE NthNewline(s, n, from + 1)

Max(S) == CHOOSE x \in S : \A y \in S : y <= x

Min(S) == CHOOSE x \in S : \A y \in S : x <= y

\* str.extract(r"^(.*): \[.*\]", 1): "." stops at a newline and ^ is the
\* start of the text, so the match lies in the first line; (.*) is greedy
extract_name(d) ==
    IF d = Null THEN Null
    ELSE LET nl   == NthNewline(d, 1, 1)
             last == IF nl = 0 THEN Len(d) ELSE nl - 1
             ends == {i \in 0..last :
                        /\ StartsWithAt(d, ": [", i + 1)
                        /\ \E j \in (i + 4)..last : Char(d, j) = "]"}
         IN  IF ends = {} THEN Null ELSE SubSeq(d, 1, Max(ends))

\* str.extract(r"^(?:.*\n){2}((?s).*?)(?:^Actual Value:|$)", 1): without the
\* multi-line flag ^ holds only at offset 0 and $ only at the end of the
\* text, so the lazy group runs from the third line to the end
extract_after_two_lines(d) ==
    IF d = Null THEN Null
    ELSE LET n2 == NthNewline(d, 2, 1)
         IN  IF n2 = 0 THEN Null ELSE SubSeq(d, n2 + 1, Len(d))

\* pattern2 = r"Actual Value:\s*\n(?s)(.*)" matches at m when the marker
\* stands at m and the run of white space after it holds a newline
Pattern2At(s, m) ==
    /\ StartsWithAt(s, ACTUAL_VALUE, m)
    /\ \E k \in (m + Len(ACTUAL_VALUE))..Len(s) :
          /\ Char(s, k) = "\n"
          /\ \A t \in (m + Len(ACTUAL_VALUE))..(k - 1) : IsSpace(Char(s, t))

Pattern2Matches(s) == {m \in 1..Len(s) : Pattern2At(s, m)}

\* str.replace(pattern2, ""): the leftmost match runs to the end of the text
replace_pattern2(v) ==
    IF v = Null THEN Null
    ELSE IF Pattern2Matches(v) = {} THEN v
    ELSE SubSeq(v, 1, Min(Pattern2Matches(v)) - 1)

\* str.extract(pattern2): group 1 of the leftmost match; \s* is greedy, so
\* the group starts after the last newline of the white space run
extract_pattern2(v) ==
    IF v = Null THEN Null
    ELSE IF Pattern2Matches(v) = {} THEN Null
    ELSE LET m  == Min(Pattern2Matches(v))
             a  == m + Len(ACTUAL_VALUE)
             ks == {k \in a..Len(v) :
                      /\ Char(v, k) = "\n"
                      /\ \A t \in a..(k - 1) : IsSpace(Char(v, t))}
         IN  SubSeq(v, Max(ks) + 1, Len(v))

compliance_name(d) == extract_name(d)

\* the description without the cut at the "Actual Value:" marker
compliance_description_keeps_evidence(d) ==
    replace_all(extract_after_two_lines(d), "\n", "<br/>")

compliance_description(d) ==
    replace_all(replace_pattern2(extract_after_two_lines(d)), "\n", "<br/>")

compliance_evidence(d) == strip_chars(replace_all(extract_pattern2(d), "\n", "<br/>"))

\* filter(pl.col("Risk") != "None", pl.col("Risk").is_not_null())
compliance_keep(risk) == risk # Null /\ risk # "None"

COMPLIANCE_DROPPED == {"VPR Score", "CVE", "Name", "Plugin Output", "Description"}

COMPLIANCE_REQUIRED == COMPLIANCE_DROPPED \cup {"Risk", "Solution"}

compliance_accepts(ft) == ft = "text/csv"

process_compliance_nessus(f, ft) ==
    IF ~compliance_accepts(ft) THEN Failure("ValueError", FALSE)
    ELSE IF ~f.ok THEN Failure("ParseError", TRUE)
    ELSE IF ~(COMPLIANCE_REQUIRED \subseteq Range(f.header))
    THEN Failure("ColumnNotFoundError", TRUE)
    ELSE
      LET lf0 == Frame(f.header, f.records)
          n   == Len(f.records)
          lf1 == with_column(lf0, "name",
                    [i \in 1..n |-> compliance_name(f.records[i]["Description"])])
          lf2 == with_column(lf1, "description",
                    [i \in 1..n |-> compliance_description(f.records[i]["Description"])])
          lf3 == with_column(lf2, "evidence",
                    [i \in 1..n |-> compliance_evidence(f.records[i]["Description"])])
          lf4 == with_column(lf3, "risk", [i \in 1..n |-> Null])
          lf5 == filter(lf4, [i \in 1..n |-> compliance_keep(f.records[i]["Risk"])])
          lf6 == rename(rename(lf5, "Solution", "remediation"), "Risk", "status")
      IN  Result("ok", TRUE, drop(lf6, COMPLIANCE_DROPPED))

\* ------------------------------------------------------------------------
\* Plugins/VAPT/VA/Nessus/nessus.py
\* ------------------------------------------------------------------------
\* "_".join(x.lower().split(" "))
va_column_name(x) == ReplaceChar(lower(x), " ", "_")

\* filter(pl.col("risk") != "None"): the comparison of a null is null, and
\* filter keeps the rows whose predicate is true
\* the comparison read as Python's: a missing risk differs from "None"
va_keep_missing_risk(risk) == risk # "None"

va_keep(risk) == IF risk = Null THEN FALSE ELSE risk # "None"

va_accepts(ft) == ft = "text/csv"

va_break(v) == replace_all(v, "\n", " <br/> ")

VA_REQUIRED == {"risk", "solution", "description", "plugin_output"}

process_va_nessus(f, ft) ==
    IF ~va_accepts(ft) THEN Failure("ValueError", FALSE)
    ELSE IF ~f.ok THEN Failure("ParseError", TRUE)
    ELSE
      LET cols == [j \in 1..Len(f.header) |-> va_column_name(f.header[j])]
          n    == Len(f.records)
          lf0  == Frame(cols, [i \in 1..n |-> [k \in Range(cols) |->
                     f.records[i][f.header[CHOOSE j \in 1..Len(cols) : cols[j] = k]]]])
      IN  IF ~(VA_REQUIRED \subseteq Range(cols)) THEN Failure("ColumnNotFoundError", TRUE)
          ELSE
            LET lf1 == filter(lf0, [i \in 1..n |-> va_keep(lf0.rows[i]["risk"])])
                m   == Len(lf1.rows)
                lf2 == with_column(lf1, "solution",
                          [i \in 1..m |-> va_break(lf1.rows[i]["solution"])])
                lf3 == with_column(lf2, "description",
                          [i \in 1..m |-> va_break(lf1.rows[i]["description"])])
                lf4 == with_column(lf3, "plugin_output",
                          [i \in 1..m |-> va_break(lf1.rows[i]["plugin_output"])])
            IN  Result("ok", TRUE,
                       rename(rename(lf4, "solution", "remediation"),
                              "plugin_output", "evidence"))

\* ------------------------------------------------------------------------
\* Inputs: CSV exports of the vulnerability scanner
\* ------------------------------------------------------------------------
Malformed == [ok |-> FALSE]

NESSUS_HEADER ==
    <<"CVE", "Risk", "Host", "Port", "Name", "Description", "Solution",
      "Plugin Output", "VPR Score">>

NESSUS_HEADER_FULL == <<"Plugin ID">> \o NESSUS_HEADER

SAMPLE_DESCRIPTION == "SSH: [t]\n\ndesc\ntext\nActual Value:\nssh -v\nout"

NessusRow(risk, desc, sol) ==
    [c \in Range(NESSUS_HEADER_FULL) |->
        CASE c = "Risk" -> risk
          [] c = "Description" -> desc
          [] c = "Solution" -> sol
          [] c = "Plugin Output" -> "out\nput"
          [] c = "CVE" -> "CVE-1"
          [] c = "Host" -> "h1"
          [] c = "Port" -> 443
          [] c = "Name" -> "n1"
          [] c = "VPR Score" -> "5.0"
          [] OTHER -> 10]

NessusRows ==
    { NessusRow("High", SAMPLE_DESCRIPTION, "Upgrade\nnow"),
      NessusRow("None", SAMPLE_DESCRIPTION, "none"),
      NessusRow(Null, "plain", Null),
      NessusRow("Info", Null, "fix"),
      NessusRow("low", "a: [b]\nc", "fix") }

Restrict(r, cols) == [c \in Range(cols) |-> r[c]]

NessusFiles ==
    {Malformed} \cup
    { [ok |-> TRUE, header |-> h, records |-> [i \in DOMAIN rs |-> Restrict(rs[i], h)]] :
        h \in {NESSUS_HEADER, NESSUS_HEADER_FULL}, rs \in SeqsUpTo(NessusRows, MaxRecords) }

\* Descriptions of the compliance export: "<name>: [tag]", a second line, the
\* description block, the line "Actual Value:", the evidence block
FormParts ==
    [name : {"SSH Weak Ciphers", "A: [x"}, tag : {"tag"}, second : {"", "info"},
     desc : {"description text", "d1\nd2", "d1\n\nd2 "},
     evidence : {"ssh -v output", "e1\ne2", " e1\n e2\n", "\ne1"}]

Compose(p) ==
    p.name \o ": [" \o p.tag \o "]\n" \o p.second \o "\n" \o p.desc \o "\n"
        \o ACTUAL_VALUE \o "\n" \o p.evidence

ComplianceFormRows ==
    { Restrict(NessusRow(risk, Compose(p), "fix"), NESSUS_HEADER) :
        risk \in {"High", "None"}, p \in FormParts }

ComplianceFormFiles ==
    { [ok |-> TRUE, header |-> NESSUS_HEADER, records |-> rs] :
        rs \in SeqsUpTo(ComplianceFormRows, MaxFormRows) }

\* ------------------------------------------------------------------------
\* Plugins/VAPT/SAST/Semgrep/semgrep.py
\* ------------------------------------------------------------------------
EmptyDict == <<>>

json_accepts(ft) == ft \in {"application/json", "json"}

\* a variant that takes risk and host from the entry
semgrep_record_reads_entry(result) ==
    LET start      == Get(result, "start", EmptyDict)
        end        == Get(result, "end", EmptyDict)
        extra      == Get(result, "extra", EmptyDict)
        start_line == Get(start, "line", 0)
        end_line   == Get(end, "line", 0)
        evidence   == "Line " \o ToString(start_line) \o " - " \o ToString(end_line)
                         \o " in file : " \o Get(result, "path", "")
    IN  [cve |-> "", risk |-> Get(extra, "severity", "Medium"),
         host |-> Get(result, "host", "semgrep"), port |-> start_line,
         name |-> Get(result, "check_id", ""), description |-> Get(extra, "message", ""),
         remediation |-> Get(extra, "fix", ""), evidence |-> evidence, vpr_score |-> ""]

semgrep_record(result) ==
    LET check_id   == Get(result, "check_id", "")
        path       == Get(result, "path", "")
        start      == Get(result, "start", EmptyDict)
        end        == Get(result, "end", EmptyDict)
        extra      == Get(result, "extra", EmptyDict)
        start_line == Get(start, "line", 0)
        end_line   == Get(end, "line", 0)
        message    == Get(extra, "message", "")
        fix        == Get(extra, "fix", "")
        evidence   == "Line " \o ToString(start_line) \o " - " \o ToString(end_line)
                         \o " in file : " \o path
    IN  [cve |-> "", risk |-> "Medium", host |-> "semgrep", port |-> start_line,
         name |-> check_id, description |-> message, remediation |-> fix,
         evidence |-> evidence, vpr_score |-> ""]

\* the three str.replace_all("\n", "<br/>") of the JSON and XML adapters
break_text_fields(fr, fields) ==
    Frame(fr.columns, [i \in 1..Len(fr.rows) |->
        [k \in Range(fr.columns) |->
            IF k \in fields THEN replace_all(fr.rows[i][k], "\n", "<br/>")
            ELSE fr.rows[i][k]]])

TEXT_FIELDS == {"description", "remediation", "evidence"}

process_semgrep(f, ft) ==
    IF ~json_accepts(ft) THEN Failure("ValueError", FALSE)
    ELSE IF ~f.ok THEN Failure("ParseError", TRUE)
    ELSE
      LET results == Get(f.data, "results", <<>>)
          records == [i \in 1..Len(results) |-> semgrep_record(results[i])]
      IN  IF records = <<>> THEN Result("ok", TRUE, Frame(CANONICAL_SCHEMA, <<>>))
          ELSE Result("ok", TRUE,
                      break_text_fields(Frame(CANONICAL_SCHEMA, records), TEXT_FIELDS))

SemgrepResults ==
    { [check_id |-> "rule.a", path |-> "src/a.py", start |-> [line |-> 18],
       end |-> [line |-> 20],
       extra |-> [message |-> "msg\nmore", fix |-> "fix\nit", severity |-> "ERROR"]],
      [check_id |-> "rule.b", path |-> "b.py", start |-> [line |-> 3],
       end |-> [line |-> 3], extra |-> [severity |-> "INFO"]],
      [check_id |-> "rule.c", extra |-> [message |-> "m"], host |-> "prod"] }

SemgrepFiles ==
    {Malformed, [ok |-> TRUE, data |-> [version |-> "1.0"]]} \cup
    { [ok |-> TRUE, data |-> [results |-> rs]] : rs \in SeqsUpTo(SemgrepResults, MaxRecords) }

\* ------------------------------------------------------------------------
\* Plugins/VAPT/SAST/ThreatCode/threatcode.py
\* ------------------------------------------------------------------------
csv_accepts(ft) == ft \in {"text/csv", "csv"}

\* x.strip().lower().replace(" ", "_")
threatcode_column_name(x) == ReplaceChar(lower(RStrip(LStrip(x))), " ", "_")

IsDigit(c) == c # "" /\ \E k \in 1..10 : Char("0123456789", k) = c

DigitValue(c) == (CHOOSE k \in 1..10 : Char("0123456789", k) = c) - 1

\* int() of a string of digits
RECURSIVE ParseInt(_)
ParseInt(s) ==
    IF s = "" THEN 0 ELSE 10 * ParseInt(SubSeq(s, 1, Len(s) - 1)) + DigitValue(Char(s, Len(s)))

\* the end of the run of white space that starts at from (from - 1 when empty)
RECURSIVE SpaceRunEnd(_, _)
SpaceRunEnd(s, from) ==
    IF from <= Len(s) /\ IsSpace(Char(s, from)) THEN SpaceRunEnd(s, from + 1) ELSE from - 1

\* the end of the run of digits that starts at from (from - 1 when empty)
RECURSIVE DigitRunEnd(_, _)
DigitRunEnd(s, from) ==
    IF from <= Len(s) /\ IsDigit(Char(s, from)) THEN DigitRunEnd(s, from + 1) ELSE from - 1

\* re.search(r'Line:\s*(\d+)', s) matches at m: the marker, white space, a digit
LineMarkerAt(s, m) ==
    /\ StartsWithAt(s, "Line:", m)
    /\ IsDigit(Char(s, SpaceRunEnd(s, m + 5) + 1))

extract_first_line_number(plugin_output) ==
    IF plugin_output = "" \/ RStrip(LStrip(plugin_output)) = "" THEN 0
    ELSE LET ms == {m \in 1..Len(plugin_output) : LineMarkerAt(plugin_output, m)}
         IN  IF ms = {} THEN 0
             ELSE LET d == SpaceRunEnd(plugin_output, Min(ms) + 5) + 1
                  IN  ParseInt(SubSeq(plugin_output, d, DigitRunEnd(plugin_output, d)))

\* map_elements skips nulls (skip_nulls defaults to True): a null stays null
line_number(plugin_output) ==
    IF plugin_output = Null THEN NullInt ELSE extract_first_line_number(plugin_output)

fill_null(v, d) == IF v = Null THEN d ELSE v

\* pl.col("risk").is_in(valid_risks): a null is not kept
risk_is_valid(risk) == risk # Null /\ risk \in VALID_RISKS

THREATCODE_REQUIRED ==
    {"cve", "risk", "host", "name", "description", "solution", "plugin_output",
     "vpr_score"}

threatcode_row(r) ==
    [cve |-> fill_null(r["cve"], ""), risk |-> to_uppercase(r["risk"]),
     host |-> r["host"], port |-> line_number(r["plugin_output"]), name |-> r["name"],
     description |-> r["description"], remediation |-> r["solution"],
     evidence |-> r["plugin_output"], vpr_score |-> fill_null(r["vpr_score"], "0")]

process_threatcode(f, ft) ==
    IF ~csv_accepts(ft) THEN Failure("ValueError", FALSE)
    ELSE IF ~f.ok THEN Failure("ParseError", TRUE)
    ELSE
      LET cols == [j \in 1..Len(f.header) |-> threatcode_column_name(f.header[j])]
          n    == Len(f.records)
          df0  == Frame(cols, [i \in 1..n |-> [k \in Range(cols) |->
                     f.records[i][f.header[CHOOSE j \in 1..Len(cols) : cols[j] = k]]]])
      IN  IF ~(THREATCODE_REQUIRED \subseteq Range(cols))
          THEN Failure("ColumnNotFoundError", TRUE)
          ELSE
            LET df1 == Frame(CANONICAL_SCHEMA, [i \in 1..n |-> threatcode_row(df0.rows[i])])
                df2 == break_text_fields(df1, TEXT_FIELDS)
                df3 == filter(df2, [i \in 1..n |-> risk_is_valid(df2.rows[i]["risk"])])
            IN  IF Len(df3.rows) = 0 THEN Result("ok", TRUE, Frame(CANONICAL_SCHEMA, <<>>))
                ELSE Result("ok", TRUE, df3)

THREATCODE_HEADER ==
    <<"CVE", "Risk", "Host", "Port", "Name", "Description", "Solution",
      "Plugin Output", " VPR Score">>

ThreatCodeRow(cve, risk, po, vpr) ==
    [c \in Range(THREATCODE_HEADER) |->
        CASE c = "CVE" -> cve
          [] c = "Risk" -> risk
          [] c = "Host" -> "repo"
          [] c = "Port" -> 0
          [] c = "Name" -> "SQL injection"
          [] c = "Description" -> "desc\nmore"
          [] c = "Solution" -> "use\nparams"
          [] c = "Plugin Output" -> po
          [] OTHER -> vpr]

ThreatCodeRows ==
    { ThreatCodeRow("CWE-89", "High", "File: a.py\nLine: 18\nCode: x\n---\nLine: 7", "0"),
      ThreatCodeRow(Null, "critical", "Line:x Line:\n 042", Null),
      ThreatCodeRow("CWE-1", "Info", "no marker", "0"),
      ThreatCodeRow("CWE-2", "LOW", Null, "1"),
      ThreatCodeRow("CWE-3", Null, "  ", "0") }

ThreatCodeFiles ==
    {Malformed} \cup
    { [ok |-> TRUE, header |-> THREATCODE_HEADER, records |-> rs] :
        rs \in SeqsUpTo(ThreatCodeRows, MaxRecords) }

\* ------------------------------------------------------------------------
\* Plugins/VAPT/VA/Trivy/trivy.py
\* ------------------------------------------------------------------------
\* a JSON array, or the JSON null where an array is expected
List(items) == [null |-> FALSE, items |-> items]

NullList == [null |-> TRUE, items |-> <<>>]

\* Python's  a or b
Or(a, b) == IF Truthy(a) THEN a ELSE b

_parse_legacy_vulnerability(vuln, data) ==
    LET cve_id   == Or(Get(vuln, "VulnerabilityID", Null),
                       Or(Get(vuln, "id", Null), Get(vuln, "cve", "")))
        severity == Or(Get(vuln, "Severity", Null), Get(vuln, "severity", ""))
        location == Get(vuln, "location", EmptyDict)
        image    == Get(location, "image", "")
        package_name ==
            IF "location" \in DOMAIN vuln /\ "dependency" \in DOMAIN vuln["location"]
            THEN Get(Get(vuln["location"]["dependency"], "package", EmptyDict), "name", "")
            ELSE ""
        name     == Or(package_name,
                       Or(Get(vuln, "PkgName", Null),
                          Or(Get(vuln, "name", Null),
                             Or(Get(vuln, "message", ""), cve_id))))
        description == Or(Get(vuln, "Description", Null), Get(vuln, "description", ""))
        solution0   == Or(Get(vuln, "FixedVersion", Null), Get(vuln, "solution", ""))
        solution    == IF ~Truthy(solution0) \/ solution0 = "No solution provided"
                       THEN "No fix available" ELSE solution0
    IN  [cve |-> cve_id, risk |-> severity, host |-> image, port |-> 0, name |-> name,
         description |-> description, remediation |-> solution, evidence |-> "",
         vpr_score |-> ""]

\* a variant that returns the fixed version without the "Upgrade to version" text
_parse_modern_vulnerability_bare_version(vuln, target) ==
    LET description0  == Get(vuln, "Description", "")
        fixed_version == Get(vuln, "FixedVersion", "")
    IN  [cve |-> Get(vuln, "VulnerabilityID", ""), risk |-> Get(vuln, "Severity", ""),
         host |-> target, port |-> 0, name |-> Get(vuln, "PkgName", ""),
         description |-> IF ~Truthy(description0) THEN Get(vuln, "Title", "")
                         ELSE description0,
         remediation |-> IF Truthy(fixed_version) THEN fixed_version
                         ELSE "No fix available",
         evidence |-> "", vpr_score |-> ""]

_parse_modern_vulnerability(vuln, target) ==
    LET cve_id       == Get(vuln, "VulnerabilityID", "")
        severity     == Get(vuln, "Severity", "")
        package_name == Get(vuln, "PkgName", "")
        description0 == Get(vuln, "Description", "")
        description  == IF ~Truthy(description0) THEN Get(vuln, "Title", "")
                        ELSE description0
        fixed_version == Get(vuln, "FixedVersion", "")
        solution     == IF Truthy(fixed_version)
                        THEN "Upgrade to version " \o fixed_version
                        ELSE "No fix available"
    IN  [cve |-> cve_id, risk |-> severity, host |-> target, port |-> 0,
         name |-> package_name, description |-> description, remediation |-> solution,
         evidence |-> "", vpr_score |-> ""]

\* the records of one entry of "Results"; a null "Vulnerabilities" is skipped
modern_result_records(result) ==
    LET target          == Get(result, "Target", "")
        vulnerabilities == Get(result, "Vulnerabilities", List(<<>>))
    IN  IF vulnerabilities.null THEN <<>>
        ELSE [i \in 1..Len(vulnerabilities.items) |->
                 _parse_modern_vulnerability(vulnerabilities.items[i], target)]

RECURSIVE Flatten(_)
Flatten(ss) == IF ss = <<>> THEN <<>> ELSE Head(ss) \o Flatten(Tail(ss))

upper_risk(fr) ==
    Frame(fr.columns, [i \in 1..Len(fr.rows) |->
        [k \in Range(fr.columns) |->
            IF k = "risk" THEN to_uppercase(fr.rows[i][k]) ELSE fr.rows[i][k]]])

filter_valid_risks(fr) ==
    filter(fr, [i \in 1..Len(fr.rows) |-> risk_is_valid(fr.rows[i]["risk"])])

\* the tail of process, from the records to the returned DataFrame
va_trivy_frame(records) ==
    IF records = <<>> THEN Frame(CANONICAL_SCHEMA, <<>>)
    ELSE filter_valid_risks(upper_risk(
            break_text_fields(Frame(CANONICAL_SCHEMA, records),
                              {"description", "remediation"})))

\* a variant without the check for a null list: the loop over it fails
process_va_trivy_null_list_fails(f, ft) ==
    IF ~json_accepts(ft) THEN Failure("ValueError", FALSE)
    ELSE IF ~f.ok THEN Failure("ParseError", TRUE)
    ELSE IF "vulnerabilities" \in DOMAIN f.data
    THEN IF f.data["vulnerabilities"].null THEN Failure("TypeError", TRUE)
         ELSE Result("ok", TRUE, va_trivy_frame(
                 [i \in 1..Len(f.data["vulnerabilities"].items) |->
                     _parse_legacy_vulnerability(f.data["vulnerabilities"].items[i],
                                                 f.data)]))
    ELSE IF "Results" \in DOMAIN f.data
    THEN IF f.data["Results"].null THEN Failure("TypeError", TRUE)
         ELSE IF \E i \in 1..Len(f.data["Results"].items) :
                    Get(f.data["Results"].items[i], "Vulnerabilities", List(<<>>)).null
         THEN Failure("TypeError", TRUE)
         ELSE Result("ok", TRUE, va_trivy_frame(Flatten(
                 [i \in 1..Len(f.data["Results"].items) |->
                     modern_result_records(f.data["Results"].items[i])])))
    ELSE Failure("ValueError", TRUE)

\* a variant that looks for the modern key first
process_va_trivy_results_first(f, ft) ==
    IF ~json_accepts(ft) THEN Failure("ValueError", FALSE)
    ELSE IF ~f.ok THEN Failure("ParseError", TRUE)
    ELSE IF "Results" \in DOMAIN f.data
    THEN IF f.data["Results"].null THEN Failure("TypeError", TRUE)
         ELSE Result("ok", TRUE, va_trivy_frame(Flatten(
                 [i \in 1..Len(f.data["Results"].items) |->
                     modern_result_records(f.data["Results"].items[i])])))
    ELSE IF "vulnerabilities" \in DOMAIN f.data
    THEN IF f.data["vulnerabilities"].null THEN Failure("TypeError", TRUE)
         ELSE Result("ok", TRUE, va_trivy_frame(
                 [i \in 1..Len(f.data["vulnerabilities"].items) |->
                     _parse_legacy_vulnerability(f.data["vulnerabilities"].items[i],
                                                 f.data)]))
    ELSE Failure("ValueError", TRUE)

process_va_trivy(f, ft) ==
    IF ~json_accepts(ft) THEN Failure("ValueError", FALSE)
    ELSE IF ~f.ok THEN Failure("ParseError", TRUE)
    ELSE IF "vulnerabilities" \in DOMAIN f.data
    THEN IF f.data["vulnerabilities"].null THEN Failure("TypeError", TRUE)
         ELSE Result("ok", TRUE, va_trivy_frame(
                 [i \in 1..Len(f.data["vulnerabilities"].items) |->
                     _parse_legacy_vulnerability(f.data["vulnerabilities"].items[i],
                                                 f.data)]))
    ELSE IF "Results" \in DOMAIN f.data
    THEN IF f.data["Results"].null THEN Failure("TypeError", TRUE)
         ELSE Result("ok", TRUE, va_trivy_frame(Flatten(
                 [i \in 1..Len(f.data["Results"].items) |->
                     modern_result_records(f.data["Results"].items[i])])))
    ELSE Failure("ValueError", TRUE)

LegacyVulns ==
    { [id |-> "CVE-1", severity |-> "High", message |-> "msg",
       description |-> "d\ne", solution |-> "Upgrade to 2.0",
       location |-> [image |-> "img:1",
                     dependency |-> [package |-> [name |-> "openssl"]]]],
      [VulnerabilityID |-> "CVE-2", Severity |-> "UNKNOWN", PkgName |-> "zlib",
       Description |-> "", Title |-> "title", solution |-> "No solution provided"],
      [cve |-> "CVE-3", severity |-> "low", FixedVersion |-> "1.2.3"],
      [id |-> "CVE-7", severity |-> "Medium", description |-> "", title |-> "title"] }

ModernVulns ==
    { [VulnerabilityID |-> "CVE-4", Severity |-> "CRITICAL", PkgName |-> "bash",
       Description |-> "d\ne", FixedVersion |-> "1.2.3"],
      [VulnerabilityID |-> "CVE-5", Severity |-> "negligible", Title |-> "title"],
      [VulnerabilityID |-> "CVE-6", Severity |-> "Medium", Description |-> "",
       Title |-> "t\nu", FixedVersion |-> ""] }

ModernResults ==
    { [Target |-> "img:1", Vulnerabilities |-> List(vs)] : vs \in SeqsUpTo(ModernVulns, 1) }
    \cup { [Target |-> "img:2", Vulnerabilities |-> NullList], [Target |-> "img:3"] }

VATrivyFiles ==
    {Malformed, [ok |-> TRUE, data |-> [SchemaVersion |-> "2"]],
     [ok |-> TRUE, data |-> [vulnerabilities |-> NullList]],
     [ok |-> TRUE, data |-> [Results |-> NullList]]}
    \cup { [ok |-> TRUE, data |-> [vulnerabilities |-> List(vs)]] :
             vs \in SeqsUpTo(LegacyVulns, MaxRecords) }
    \cup { [ok |-> TRUE, data |-> [vulnerabilities |-> List(vs), Results |-> List(rs)]] :
             vs \in SeqsUpTo(LegacyVulns, 1), rs \in SeqsUpTo(ModernResults, 1) }
    \cup { [ok |-> TRUE, data |-> [Results |-> List(rs)]] :
             rs \in SeqsUpTo(ModernResults, MaxRecords) }

\* ------------------------------------------------------------------------
\* Plugins/VAPT/SCA/Trivy/trivy.py
\* ------------------------------------------------------------------------
sca_accepts(ft) == ft = "json"

\* pl.coalesce: the first value that is not null
RECURSIVE coalesce(_)
coalesce(vs) ==
    IF vs = <<>> THEN Null ELSE IF Head(vs) # Null THEN Head(vs) ELSE coalesce(Tail(vs))

\* one exploded, unnested element of "vulnerabilities" with its mapped columns
sca_row(v) ==
    LET host     == v.location.image
        pkg_name == v.location.dependency.package.name
        cve      == v.id
    IN  [cve |-> cve, risk |-> to_uppercase(v.severity), host |-> host, port |-> 0,
         name |-> coalesce(<<pkg_name, v.message, cve>>),
         description |-> v.description, remediation |-> v.solution,
         evidence |-> "", vpr_score |-> ""]

process_sca_trivy(f, ft) ==
    IF ~sca_accepts(ft) THEN Failure("ValueError", FALSE)
    ELSE IF ~f.ok THEN Failure("ParseError", TRUE)
    ELSE IF "vulnerabilities" \notin DOMAIN f.data THEN Failure("ColumnNotFoundError", TRUE)
    \* an empty array has no struct type: unnest and the field look-ups fail
    ELSE IF f.data["vulnerabilities"] = <<>> THEN Failure("SchemaError", TRUE)
    ELSE
      LET vs  == f.data["vulnerabilities"]
          lf1 == Frame(CANONICAL_SCHEMA, [i \in 1..Len(vs) |-> sca_row(vs[i])])
          lf2 == filter_valid_risks(lf1)
          lf3 == break_text_fields(lf2, {"description", "remediation"})
      IN  Result("ok", TRUE, select(lf3, CANONICAL_SCHEMA))

ScaVuln(id, severity, pkg, message) ==
    [id |-> id, severity |-> severity, message |-> message, description |-> "d\ne",
     solution |-> "up\ngrade",
     location |-> [image |-> "img:1",
                   dependency |-> [package |-> [name |-> pkg], version |-> "1.0"]]]

ScaVulns ==
    { ScaVuln("CVE-1", "High", "openssl", "msg"),
      ScaVuln("CVE-2", "Unknown", "zlib", "msg"),
      ScaVuln("CVE-3", "LOW", Null, "msg"),
      ScaVuln("CVE-4", "critical", "", Null),
      ScaVuln("CVE-5", "Medium", Null, Null) }

ScaTrivyFiles ==
    {Malformed, [ok |-> TRUE, data |-> [version |-> "15"]]} \cup
    { [ok |-> TRUE, data |-> [vulnerabilities |-> vs]] :
        vs \in SeqsUpTo(ScaVulns, MaxRecords) }

\* ------------------------------------------------------------------------
\* Plugins/VAPT/DAST/BurpSuite/burpsuite.py
\* ------------------------------------------------------------------------
SUPPORTED_TYPES == {"xml", "application/xml", "text/xml", "application/x-xml"}

burpsuite_accepts(ft) == lower(ft) \in {lower(t) : t \in SUPPORTED_TYPES}

\* issue.findtext(tag, ''): '' when the child is absent or has no text
findtext(issue, tag) ==
    IF tag \in DOMAIN issue /\ issue[tag].text # Null THEN issue[tag].text ELSE ""

\* host_elem.text or host_elem.get('ip', '') or ''
\* the ip attribute consulted before the element's text
burpsuite_host_ip_first(issue) ==
    IF "host" \in DOMAIN issue
    THEN Or(Get(issue["host"].attrib, "ip", ""), Or(issue["host"].text, ""))
    ELSE ""

burpsuite_host(issue) ==
    IF "host" \in DOMAIN issue
    THEN Or(issue["host"].text, Or(Get(issue["host"].attrib, "ip", ""), ""))
    ELSE ""

burpsuite_description(issue) ==
    IF findtext(issue, "issueBackground") # "" THEN findtext(issue, "issueBackground")
    ELSE findtext(issue, "issueDetail")

burpsuite_remediation(issue) ==
    IF findtext(issue, "remediationBackground") # ""
    THEN findtext(issue, "remediationBackground")
    ELSE findtext(issue, "remediationDetail")

burpsuite_evidence(issue) ==
    IF "requestresponse" \in DOMAIN issue /\ "request" \in DOMAIN issue["requestresponse"]
    THEN Or(issue["requestresponse"]["request"].text, "")
    ELSE ""

burpsuite_record(issue) ==
    [cve |-> "", risk |-> findtext(issue, "severity"), host |-> burpsuite_host(issue),
     port |-> 0, name |-> findtext(issue, "name"),
     description |-> burpsuite_description(issue),
     remediation |-> burpsuite_remediation(issue),
     evidence |-> burpsuite_evidence(issue), vpr_score |-> ""]

burpsuite_frame(records) ==
    IF records = <<>> THEN Frame(CANONICAL_SCHEMA, <<>>)
    ELSE filter_valid_risks(upper_risk(
            break_text_fields(Frame(CANONICAL_SCHEMA, records), TEXT_FIELDS)))

\* the document parsed before the check of file_type
process_burpsuite_parses_first(f, ft) ==
    IF ~f.ok THEN Failure("ParseError", TRUE)
    ELSE IF ~burpsuite_accepts(ft) THEN Failure("ValueError", TRUE)
    ELSE Result("ok", TRUE,
                burpsuite_frame([i \in 1..Len(f.issues) |-> burpsuite_record(f.issues[i])]))

process_burpsuite(f, ft) ==
    IF ~burpsuite_accepts(ft) THEN Failure("ValueError", FALSE)
    ELSE IF ~f.ok THEN Failure("ParseError", TRUE)
    ELSE Result("ok", TRUE,
                burpsuite_frame([i \in 1..Len(f.issues) |-> burpsuite_record(f.issues[i])]))

\* an XML element with text (Null for none) and attributes
Elem(text, attrib) == [text |-> text, attrib |-> attrib]

Text(t) == Elem(t, EmptyDict)

BurpIssue(severity, host, background, detail, rbackground, rdetail) ==
    [severity |-> Text(severity), host |-> host, name |-> Text("XSS"),
     issueBackground |-> Text(background), issueDetail |-> Text(detail),
     remediationBackground |-> Text(rbackground), remediationDetail |-> Text(rdetail),
     requestresponse |-> [request |-> Text("GET / HTTP/1.1\nHost: h")]]

BurpIssues ==
    { BurpIssue("High", Elem(Null, [ip |-> "10.0.0.1"]), "bg\nmore", "detail",
                "escape\noutput", "rd"),
      BurpIssue("Medium", Elem("https://h", [ip |-> "10.0.0.1"]), Null, "de\ntail",
                Null, "rd"),
      BurpIssue("low", Elem(Null, EmptyDict), Null, Null, Null, Null),
      BurpIssue("Information", Elem("https://h", EmptyDict), "bg", "detail", "rb", "rd"),
      [severity |-> Text("Critical"), issueDetail |-> Text("only\ndetail"),
       remediationDetail |-> Text("fix"), requestresponse |-> EmptyDict],
      [name |-> Text("no severity")] }

BurpFiles ==
    {Malformed} \cup
    { [ok |-> TRUE, issues |-> is] : is \in SeqsUpTo(BurpIssues, MaxRecords) }

\* ------------------------------------------------------------------------
\* Plugins/VAPT/BugBounty/YesWeHack/ywh2csv.py
\* ------------------------------------------------------------------------
CRITICALITY_MAP ==
    [k \in {"critical", "c", "high", "h", "medium", "m", "low", "l"} |->
        CASE k \in {"critical", "c"} -> "CRITICAL"
          [] k \in {"high", "h"} -> "HIGH"
          [] k \in {"medium", "m"} -> "MEDIUM"
          [] OTHER -> "LOW"]

CSV_HEADERS ==
    <<"CVE", "Risk", "Host", "Port", "Name", "Description", "Solution",
      "Plugin Output", "VPR Score">>

\* None where a dict is expected (a failed request, no row)
NoneDict == [none |-> TRUE]

\* str(v) of an optional string
Str(v) == IF v = Null THEN "None" ELSE v

\* a variant without the strip()
convert_criticality_keeps_whitespace(ywh_criticality) ==
    IF ~Truthy(ywh_criticality) THEN Null
    ELSE Get(CRITICALITY_MAP, lower(ywh_criticality), Null)

convert_criticality(ywh_criticality) ==
    IF ~Truthy(ywh_criticality) THEN Null
    ELSE LET criticality_lower == RStrip(LStrip(lower(Str(ywh_criticality))))
             mapped            == Get(CRITICALITY_MAP, criticality_lower, Null)
         IN  mapped

\* str.replace(old, new): every occurrence, left to right, without overlap
RECURSIVE replace(_, _, _)
replace(s, old, new) ==
    IF s = "" THEN ""
    ELSE IF StartsWithAt(s, old, 1)
    THEN new \o replace(SubSeq(s, Len(old) + 1, Len(s)), old, new)
    ELSE Char(s, 1) \o replace(Tail(s), old, new)

\* s.split(c)[0]: the text before the first c, all of s when it has none
RECURSIVE split_first(_, _)
split_first(s, c) ==
    IF s = "" \/ Char(s, 1) = c THEN "" ELSE Char(s, 1) \o split_first(Tail(s), c)

\* the class [a-zA-Z0-9.\-]
HostChars ==
    {Char(UpperAlphabet, k) : k \in 1..26} \cup {Char(LowerAlphabet, k) : k \in 1..26}
    \cup {Char("0123456789", k) : k \in 1..10} \cup {".", "-"}

IsHostChar(c) == c \in HostChars

\* re.sub(r'[^a-zA-Z0-9.\-]', '', s)
RECURSIVE remove_special(_)
remove_special(s) ==
    IF s = "" THEN ""
    ELSE (IF IsHostChar(Char(s, 1)) THEN Char(s, 1) ELSE "") \o remove_special(Tail(s))

clean_scope(scope) ==
    IF ~Truthy(scope) THEN ""
    ELSE LET stripped  == RStrip(LStrip(Str(scope)))
             unescaped == replace(stripped, "\\/", "/")
             no_scheme == replace(replace(unescaped, "https://", ""), "http://", "")
             no_path   == split_first(no_scheme, "/")
             no_port   == split_first(no_path, ":")
         IN  remove_special(no_port)

MAX_LENGTH == 5000

format_description(description, max_length) ==
    IF ~Truthy(description) THEN ""
    ELSE LET formatted == ReplaceChar(Str(description), "\n", "<br/>")
         IN  IF Len(formatted) > max_length
             THEN SubSeq(formatted, 1, max_length) \o "..."
             ELSE formatted

\* a variant that is content with one of the two conditions
should_include_report_either(report) ==
    \/ lower(Str(Get(report, "workflow_state", ""))) = "accepted"
    \/ Str(Get(report, "ask_for_fix_verification_status", "")) = "PENDING"

should_include_report(report) ==
    LET workflow_state0 == Get(report, "workflow_state", "")
        status          == Get(report, "status", EmptyDict)
        workflow_state1 == IF ~Truthy(workflow_state0)
                           THEN Get(status, "workflow_state", "")
                           ELSE workflow_state0
        workflow        == Get(report, "workflow", EmptyDict)
        workflow_state  == IF ~Truthy(workflow_state1)
                           THEN Get(workflow, "state", "")
                           ELSE workflow_state1
        fix_verification_status == Get(report, "ask_for_fix_verification_status", "")
        is_accepted     == lower(Str(workflow_state)) = "accepted"
        is_pending      == Str(fix_verification_status) = "PENDING"
    IN  is_accepted /\ is_pending

\* the row of the CSV file, NoneDict when the criticality is not valid
map_report_to_csv_row(report, detailed_report) ==
    LET source      == IF detailed_report # NoneDict THEN detailed_report ELSE report
        local_id    == Get(source, "local_id", "")
        criticity0  == Get(source, "criticity", "")
        criticity   == IF ~Truthy(criticity0)
                       THEN Get(Get(source, "cvss", EmptyDict), "criticity", "")
                       ELSE criticity0
        title       == Get(source, "title", "")
        description0 == Get(source, "description_html", "")
        description == IF ~Truthy(description0) THEN Get(source, "description", "")
                       ELSE description0
        remediation_link0 == Get(source, "remediation_link", "")
        remediation_link  == IF ~Truthy(remediation_link0)
                             THEN Get(Get(source, "bug_type", EmptyDict),
                                      "remediation_link", "")
                             ELSE remediation_link0
        scope       == Get(source, "scope", "")
        host        == IF Truthy(scope) THEN clean_scope(scope) ELSE ""
        risk        == convert_criticality(criticity)
    IN  IF ~Truthy(risk) THEN NoneDict
        ELSE [h \in Range(CSV_HEADERS) |->
                CASE h = "CVE" -> local_id
                  [] h = "Risk" -> risk
                  [] h = "Host" -> host
                  [] h = "Port" -> "0"
                  [] h = "Name" -> title
                  [] h = "Description" -> format_description(description, MAX_LENGTH)
                  [] h = "Solution" ->
                        IF Truthy(remediation_link)
                        THEN format_description(remediation_link, MAX_LENGTH)
                        ELSE format_description(description, MAX_LENGTH)
                  [] OTHER -> ""]

\* the reports as the list endpoint gives them
Summaries ==
    { [id |-> "101", local_id |-> "YWH-1", title |-> "XSS", criticity |-> "h",
       scope |-> "https://app.example.com/", description |-> "sum\nmary"],
      [local_id |-> "YWH-2", title |-> "SQLi", criticity |-> "info",
       scope |-> "http://example.com/path"],
      [title |-> "no id", cvss |-> [criticity |-> "Low"]] }

\* the status fields of a detailed report, in the places the API puts them
WorkflowFields ==
    { [workflow_state |-> "accepted", ask_for_fix_verification_status |-> "PENDING"],
      [workflow_state |-> "Accepted", ask_for_fix_verification_status |-> "PENDING"],
      [status |-> [workflow_state |-> "ACCEPTED"],
       ask_for_fix_verification_status |-> "PENDING"],
      [workflow_state |-> "", workflow |-> [state |-> "accepted"],
       ask_for_fix_verification_status |-> "PENDING"],
      [workflow_state |-> Null, status |-> [workflow_state |-> Null],
       workflow |-> [state |-> "accepted"],
       ask_for_fix_verification_status |-> "PENDING"],
      [workflow_state |-> "new", status |-> [workflow_state |-> "accepted"],
       ask_for_fix_verification_status |-> "PENDING"],
      [workflow_state |-> "resolved", ask_for_fix_verification_status |-> "PENDING"],
      [ask_for_fix_verification_status |-> "PENDING"],
      [workflow_state |-> "accepted", ask_for_fix_verification_status |-> "pending"],
      [workflow_state |-> "accepted", ask_for_fix_verification_status |-> "DONE"],
      [workflow_state |-> "accepted", ask_for_fix_verification_status |-> Null],
      [workflow_state |-> "accepted"] }

Criticalities ==
    {"critical", "CRITICAL", "c", "C", "high", " High ", "h", "H", "medium", "MeDiUm",
     "m", "\tM\n", "low", "LOW", "l", "L ", "", "i", "info", "crit", Null}

Scopes ==
    {"https://app.example.com/", "https:\\/\\/app.example.com\\/",
     "http://example.com/path", "https://sub.domain.com:8080/path",
     "  app.example.com  ", "HTTPS://App.Example.com/", "", Null}

\* the detailed reports the /reports/{id} endpoint may hold for a report of
\* the list: the report with id 101 in each workflow state, the other with
\* each criticality and each scope
Details(report) ==
    IF "id" \in DOMAIN report
    THEN { [local_id |-> report["local_id"], title |-> "XSS",
            description_html |-> "de\ntail", criticity |-> "h",
            scope |-> "https://app.example.com/"] @@ w : w \in WorkflowFields }
    ELSE { [local_id |-> report["local_id"], title |-> "SQLi",
            description_html |-> "de\ntail", criticity |-> c,
            scope |-> "https://app.example.com/", workflow_state |-> "accepted",
            ask_for_fix_verification_status |-> "PENDING"] : c \in Criticalities }
         \cup
         { [local_id |-> report["local_id"], title |-> "SQLi",
            description |-> "de\ntail", criticity |-> "", cvss |-> [criticity |-> c],
            bug_type |-> [remediation_link |-> "https://fix"],
            workflow_state |-> "accepted",
            ask_for_fix_verification_status |-> "PENDING"] : c \in {"M", "none"} }
         \cup
         { [local_id |-> report["local_id"], title |-> "SQLi",
            description_html |-> "de\ntail", criticity |-> "high", scope |-> sc,
            workflow_state |-> "accepted",
            ask_for_fix_verification_status |-> "PENDING"] : sc \in Scopes }

\* what get_report_details may return: None when the request fails
DetailAnswers(report) == {NoneDict} \cup Details(report)

NoFile == [exists |-> FALSE, header |-> <<>>, rows |-> <<>>]

\* ------------------------------------------------------------------------
\* The state machine of export_reports_to_csv
\* ------------------------------------------------------------------------
MainIdle ==
    /\ caller = "none"
    /\ no_filter = FALSE
    /\ no_details = FALSE
    /\ conflict_warned = FALSE
    /\ exit_code = NullInt

PaginationIdle ==
    /\ server_reports = <<>>
    /\ limit = 0
    /\ page_cap = 0
    /\ has_total = FALSE
    /\ offset = 0
    /\ all_reports = <<>>
    /\ gpc = "idle"
    /\ response = NoneDict
    /\ requested = <<>>
    /\ program_reports = NullList

ExporterIdle ==
    /\ reports = <<>>
    /\ fetch_details = FALSE
    /\ apply_filter = FALSE
    /\ epc = "idle"
    /\ report_idx = 0
    /\ detailed = NoneDict
    /\ branch = "none"
    /\ csv_rows = <<>>
    /\ skipped_criticality = 0
    /\ skipped_status = 0
    /\ failed_details = 0
    /\ export_result = "none"
    /\ output_file = NoFile

AdapterIdle ==
    /\ adapter = "none"
    /\ file_type = ""
    /\ file = Malformed
    /\ pc = "idle"
    /\ outcome = "none"
    /\ parsed = FALSE
    /\ columns = <<>>
    /\ rows = <<>>

InitExport ==
    /\ AdapterIdle
    /\ PaginationIdle
    /\ MainIdle
    /\ reports \in SeqsUpTo(Summaries, MaxReports)
    /\ fetch_details \in BOOLEAN
    /\ apply_filter \in BOOLEAN
    /\ epc = "entry"
    /\ report_idx = 0
    /\ detailed = NoneDict
    /\ branch = "none"
    /\ csv_rows = <<>>
    /\ skipped_criticality = 0
    /\ skipped_status = 0
    /\ failed_details = 0
    /\ export_result = "none"
    /\ output_file = NoFile

\* if not reports: return False
ExportNoReports ==
    /\ epc = "entry" /\ reports = <<>>
    /\ epc' = "returned"
    /\ export_result' = "False"
    /\ UNCHANGED <<avars, mvars, pvars>>
    /\ UNCHANGED <<reports, fetch_details, apply_filter, report_idx, detailed,
                   branch, csv_rows, skipped_criticality, skipped_status,
                   failed_details, output_file>>

\* the counters and the list of rows are set up, the loop is entered
ExportBegin ==
    /\ epc = "entry" /\ reports # <<>>
    /\ epc' = "loop"
    /\ UNCHANGED <<avars, mvars, pvars>>
    /\ UNCHANGED <<reports, fetch_details, apply_filter, report_idx, detailed,
                   branch, csv_rows, skipped_criticality, skipped_status,
                   failed_details, export_result, output_file>>

\* one iteration of the loop over reports
ExportReport ==
    /\ epc = "loop" /\ report_idx < Len(reports)
    /\ LET report    == reports[report_idx + 1]
           report_id == Or(Get(report, "id", Null), Get(report, "local_id", ""))
           fetches   == fetch_details /\ Truthy(report_id)
       IN  \E answer \in (IF fetches THEN DetailAnswers(report) ELSE {NoneDict}) :
             /\ report_idx' = report_idx + 1
             /\ detailed' = answer
             /\ failed_details' =
                   IF fetches /\ answer = NoneDict THEN failed_details + 1
                   ELSE failed_details
             /\ IF apply_filter /\ answer = NoneDict
                THEN /\ branch' = "not_fetched"
                     /\ skipped_status' = skipped_status + 1
                     /\ UNCHANGED <<csv_rows, skipped_criticality>>
                ELSE IF apply_filter /\ ~should_include_report(answer)
                THEN /\ branch' = "filtered"
                     /\ skipped_status' = skipped_status + 1
                     /\ UNCHANGED <<csv_rows, skipped_criticality>>
                ELSE LET csv_row == map_report_to_csv_row(report, answer)
                     IN  IF csv_row # NoneDict
                         THEN /\ branch' = "appended"
                              /\ csv_rows' = Append(csv_rows, csv_row)
                              /\ UNCHANGED <<skipped_criticality, skipped_status>>
                         ELSE /\ branch' = "invalid_criticality"
                              /\ skipped_criticality' = skipped_criticality + 1
                              /\ UNCHANGED <<csv_rows, skipped_status>>
    /\ UNCHANGED <<avars, mvars, pvars>>
    /\ UNCHANGED <<reports, fetch_details, apply_filter, epc, export_result,
                   output_file>>

\* the output file opened before the rows are looked at
ExportNoRows_creates_file ==
    /\ epc = "loop" /\ report_idx = Len(reports) /\ csv_rows = <<>>
    /\ epc' = "returned"
    /\ export_result' = "False"
    /\ output_file' = [exists |-> TRUE, header |-> CSV_HEADERS, rows |-> <<>>]
    /\ UNCHANGED <<avars, mvars, pvars>>
    /\ UNCHANGED <<reports, fetch_details, apply_filter, report_idx, detailed,
                   branch, csv_rows, skipped_criticality, skipped_status,
                   failed_details>>

\* if not csv_rows: return False
ExportNoRows ==
    /\ epc = "loop" /\ report_idx = Len(reports) /\ csv_rows = <<>>
    /\ epc' = "returned"
    /\ export_result' = "False"
    /\ UNCHANGED <<avars, mvars, pvars>>
    /\ UNCHANGED <<reports, fetch_details, apply_filter, report_idx, detailed,
                   branch, csv_rows, skipped_criticality, skipped_status,
                   failed_details, output_file>>

\* the file is written, or opening it fails with IOError
ExportWrite ==
    /\ epc = "loop" /\ report_idx = Len(reports) /\ csv_rows # <<>>
    /\ epc' = "returned"
    /\ \E io_error \in BOOLEAN :
          IF io_error
          THEN export_result' = "False" /\ UNCHANGED output_file
          ELSE /\ export_result' = "True"
               /\ output_file' = [exists |-> TRUE, header |-> CSV_HEADERS,
                                  rows |-> csv_rows]
    /\ UNCHANGED <<avars, mvars, pvars>>
    /\ UNCHANGED <<reports, fetch_details, apply_filter, report_idx, detailed,
                   branch, csv_rows, skipped_criticality, skipped_status,
                   failed_details>>

NextExport ==
    \/ ExportNoReports
    \/ ExportBegin
    \/ ExportReport
    \/ ExportNoRows
    \/ ExportWrite

SpecExport == InitExport /\ [][NextExport]_vars

\* ------------------------------------------------------------------------
\* main of the exporter, from the end of the collection of reports on
\* ------------------------------------------------------------------------
\* the conflict of the flags is warned about and fetch_details is left as
\* --no-details set it
export_flags_warns_only(args) ==
    LET filtering == ~args.no_filter
        fetching  == ~args.no_details
    IN  [apply_filter |-> filtering, fetch_details |-> fetching,
         conflict_warned |-> filtering /\ ~fetching]

\* apply_filter and fetch_details from the flags --no-filter and
\* --no-details; filtering forces the fetching of details, with a warning
export_flags(args) ==
    LET filtering == ~args.no_filter
        fetching  == ~args.no_details
        conflict  == filtering /\ ~fetching
    IN  [apply_filter |-> filtering,
         fetch_details |-> IF conflict THEN TRUE ELSE fetching,
         conflict_warned |-> conflict]

\* main has collected all_reports (here reports) and is about to export
InitMain ==
    /\ AdapterIdle
    /\ PaginationIdle
    /\ caller = "main"
    /\ no_filter \in BOOLEAN
    /\ no_details \in BOOLEAN
    /\ conflict_warned = FALSE
    /\ exit_code = NullInt
    /\ reports \in SeqsUpTo(Summaries, MaxReports)
    /\ fetch_details = FALSE
    /\ apply_filter = FALSE
    /\ epc = "main"
    /\ report_idx = 0
    /\ detailed = NoneDict
    /\ branch = "none"
    /\ csv_rows = <<>>
    /\ skipped_criticality = 0
    /\ skipped_status = 0
    /\ failed_details = 0
    /\ export_result = "none"
    /\ output_file = NoFile

\* if all_reports: the flags are settled and export_reports_to_csv is called
MainExport ==
    /\ epc = "main" /\ reports # <<>>
    /\ LET flags == export_flags([no_filter |-> no_filter, no_details |-> no_details])
       IN  /\ apply_filter' = flags.apply_filter
           /\ fetch_details' = flags.fetch_details
           /\ conflict_warned' = flags.conflict_warned
    /\ epc' = "entry"
    /\ UNCHANGED <<avars, pvars, caller, no_filter, no_details, exit_code>>
    /\ UNCHANGED <<reports, report_idx, detailed, branch, csv_rows,
                   skipped_criticality, skipped_status, failed_details,
                   export_result, output_file>>

\* else: "No reports found for any of the specified programs", return 1
MainNoReports ==
    /\ epc = "main" /\ reports = <<>>
    /\ epc' = "exited"
    /\ exit_code' = 1
    /\ UNCHANGED <<avars, pvars, caller, no_filter, no_details, conflict_warned>>
    /\ UNCHANGED <<reports, fetch_details, apply_filter, report_idx, detailed,
                   branch, csv_rows, skipped_criticality, skipped_status,
                   failed_details, export_result, output_file>>

\* return 0 if success else 1
MainReturn ==
    /\ epc = "returned" /\ caller = "main"
    /\ epc' = "exited"
    /\ exit_code' = IF export_result = "True" THEN 0 ELSE 1
    /\ UNCHANGED <<avars, pvars, caller, no_filter, no_details, conflict_warned>>
    /\ UNCHANGED <<reports, fetch_details, apply_filter, report_idx, detailed,
                   branch, csv_rows, skipped_criticality, skipped_status,
                   failed_details, export_result, output_file>>

NextMain ==
    \/ MainExport
    \/ MainNoReports
    \/ MainReturn
    \/ ExportNoReports
    \/ ExportBegin
    \/ ExportReport
    \/ ExportNoRows
    \/ ExportWrite

\* export_reports_to_csv called directly with the arguments main never
\* passes: filtering without the fetching of details
InitExportConflict == InitExport /\ apply_filter /\ ~fetch_details

\* export_reports_to_csv called by main, or directly with those arguments
SpecMain == (InitMain \/ InitExportConflict) /\ [][NextMain]_vars

\* ------------------------------------------------------------------------
\* get_program_reports: the pages of a program's reports
\* ------------------------------------------------------------------------
\* make_api_request: the parsed JSON of the answer; every HTTP error,
\* connection error, timeout and other exception is caught and logged, and
\* None is returned
make_api_request(ok, reply) == IF ok THEN reply ELSE NoneDict

\* the server's page for limit and offset: at most lim reports, and at most
\* the cap of the server, from position off on
ServerPage(held, lim, cap, off) ==
    SubSeq(held, off + 1, Min({Len(held), off + Min({lim, cap})}))

\* the JSON the server answers with
ServerReply(held, lim, cap, off, with_total) ==
    [items |-> ServerPage(held, lim, cap, off),
     pagination |-> IF with_total THEN [total |-> Len(held)] ELSE EmptyDict]

\* a failed request gives up the reports of the earlier pages too
first_request_always(off) == TRUE

\* if offset == 0: return None
first_request(off) == off = 0

\* if len(all_reports) >= total: break
reached_total(acc, total) == Len(acc) >= total

\* the same offset is asked for again
next_offset_stays(off, lim) == off

\* offset += limit
next_offset(off, lim) == off + lim

\* return all_reports if all_reports else None
reports_or_none(acc) == IF acc # <<>> THEN List(acc) ELSE NullList

InitPagination ==
    /\ AdapterIdle
    /\ ExporterIdle
    /\ MainIdle
    /\ server_reports \in {[i \in 1..n |-> i] : n \in 0..MaxServerReports}
    /\ limit \in 1..MaxLimit
    /\ page_cap \in 1..MaxLimit
    /\ has_total \in BOOLEAN
    /\ offset = 0
    /\ all_reports = <<>>
    /\ gpc = "loop"
    /\ response = NoneDict
    /\ requested = <<>>
    /\ program_reports = NullList

\* one iteration of while True, with the return that follows a break
RequestPage ==
    /\ gpc = "loop"
    /\ \E ok \in BOOLEAN :
          LET answer == make_api_request(ok,
                           ServerReply(server_reports, limit, page_cap, offset,
                                       has_total))
          IN  /\ response' = answer
              /\ requested' = Append(requested, offset)
              /\ IF answer = NoneDict
                 THEN /\ gpc' = "returned"
                      /\ program_reports' = IF first_request(offset) THEN NullList
                                            ELSE reports_or_none(all_reports)
                      /\ UNCHANGED <<offset, all_reports>>
                 ELSE LET page_items == Get(answer, "items", <<>>)
                          extended   == all_reports \o page_items
                          pagination == Get(answer, "pagination", EmptyDict)
                          total      == Get(pagination, "total", 0)
                      IN  IF page_items = <<>>
                          THEN /\ gpc' = "returned"
                               /\ program_reports' = reports_or_none(all_reports)
                               /\ UNCHANGED <<offset, all_reports>>
                          ELSE IF reached_total(extended, total)
                          THEN /\ gpc' = "returned"
                               /\ all_reports' = extended
                               /\ program_reports' = reports_or_none(extended)
                               /\ UNCHANGED offset
                          ELSE /\ all_reports' = extended
                               /\ offset' = next_offset(offset, limit)
                               /\ UNCHANGED <<gpc, program_reports>>
    /\ UNCHANGED <<avars, evars, mvars>>
    /\ UNCHANGED <<server_reports, limit, page_cap, has_total>>

NextPagination == RequestPage

SpecPagination == InitPagination /\ [][NextPagination]_vars

\* the loop is sequential code and every request ends, with an answer or
\* after the timeout of 30 seconds: an iteration that can be taken is taken
SpecPaginationFair == SpecPagination /\ WF_vars(RequestPage)

\* ------------------------------------------------------------------------
\* The state machine: one upload, handled by the adapter chosen for it
\* ------------------------------------------------------------------------
Adapters ==
    {"ComplianceNessus", "VANessus", "Semgrep", "ThreatCode", "VATrivy", "SCATrivy",
     "BurpSuite"}

FileTypes ==
    {"text/csv", "csv", "Text/CSV", "application/json", "json", "JSON", "xml",
     "text/xml", "application/xml", "application/x-xml", "Text/XML", "text/plain"}

FilesOf(a) ==
    CASE a = "ComplianceNessus" -> NessusFiles
      [] a = "VANessus" -> NessusFiles
      [] a = "Semgrep" -> SemgrepFiles
      [] a = "ThreatCode" -> ThreatCodeFiles
      [] a = "VATrivy" -> VATrivyFiles
      [] a = "SCATrivy" -> ScaTrivyFiles
      [] a = "BurpSuite" -> BurpFiles

Init ==
    /\ adapter \in Adapters
    /\ file_type \in FileTypes
    /\ file \in FilesOf(adapter)
    /\ pc = "ready"
    /\ outcome = "none"
    /\ parsed = FALSE
    /\ columns = <<>>
    /\ rows = <<>>
    /\ ExporterIdle
    /\ MainIdle
    /\ PaginationIdle

Return(r) ==
    /\ pc' = "done"
    /\ outcome' = r.outcome
    /\ parsed' = r.parsed
    /\ columns' = r.columns
    /\ rows' = r.rows
    /\ UNCHANGED <<adapter, file_type, file>>
    /\ UNCHANGED <<evars, mvars, pvars>>

ComplianceNessusProcess ==
    /\ pc = "ready" /\ adapter = "ComplianceNessus"
    /\ Return(process_compliance_nessus(file, file_type))

VANessusProcess ==
    /\ pc = "ready" /\ adapter = "VANessus"
    /\ Return(process_va_nessus(file, file_type))

SemgrepProcess ==
    /\ pc = "ready" /\ adapter = "Semgrep"
    /\ Return(process_semgrep(file, file_type))

ThreatCodeProcess ==
    /\ pc = "ready" /\ adapter = "ThreatCode"
    /\ Return(process_threatcode(file, file_type))

VATrivyProcess ==
    /\ pc = "ready" /\ adapter = "VATrivy"
    /\ Return(process_va_trivy(file, file_type))

SCATrivyProcess ==
    /\ pc = "ready" /\ adapter = "SCATrivy"
    /\ Return(process_sca_trivy(file, file_type))

BurpSuiteProcess ==
    /\ pc = "ready" /\ adapter = "BurpSuite"
    /\ Return(process_burpsuite(file, file_type))

Next ==
    \/ ComplianceNessusProcess
    \/ VANessusProcess
    \/ SemgrepProcess
    \/ ThreatCodeProcess
    \/ VATrivyProcess
    \/ SCATrivyProcess
    \/ BurpSuiteProcess

Spec == Init /\ [][Next]_vars

\* the compliance adapter alone, on exports in the three-part Description form
InitCompliance ==
    /\ adapter = "ComplianceNessus"
    /\ file_type \in {"text/csv", "csv"}
    /\ file \in ComplianceFormFiles
    /\ pc = "ready"
    /\ outcome = "none"
    /\ parsed = FALSE
    /\ columns = <<>>
    /\ rows = <<>>
    /\ ExporterIdle
    /\ MainIdle
    /\ PaginationIdle

NextCompliance == ComplianceNessusProcess

SpecCompliance == InitCompliance /\ [][NextCompliance]_vars

\* ------------------------------------------------------------------------
\* What the properties below read from an upload
\* ------------------------------------------------------------------------
Done == pc = "done"

Ok == pc = "done" /\ outcome = "ok"

\* whether the adapter's check of file_type lets the label through
Accepts(a, ft) ==
    CASE a = "ComplianceNessus" -> compliance_accepts(ft)
      [] a = "VANessus" -> va_accepts(ft)
      [] a = "Semgrep" -> json_accepts(ft)
      [] a = "ThreatCode" -> csv_accepts(ft)
      [] a = "VATrivy" -> json_accepts(ft)
      [] a = "SCATrivy" -> sca_accepts(ft)
      [] a = "BurpSuite" -> burpsuite_accepts(ft)

\* the short and MIME labels of the format each adapter reads
FormatLabels(a) ==
    IF a \in {"ComplianceNessus", "VANessus", "ThreatCode"} THEN {"csv", "text/csv"}
    ELSE IF a = "BurpSuite" THEN {"xml", "application/xml", "text/xml"}
    ELSE {"json", "application/json"}

\* a parsable document of the shape the adapter reads
WellFormed(a, f) ==
    /\ f.ok
    /\ CASE a = "ComplianceNessus" -> COMPLIANCE_REQUIRED \subseteq Range(f.header)
         [] a = "VANessus" ->
               VA_REQUIRED \subseteq {va_column_name(c) : c \in Range(f.header)}
         [] a = "ThreatCode" ->
               THREATCODE_REQUIRED \subseteq {threatcode_column_name(c) : c \in Range(f.header)}
         [] a = "VATrivy" ->
               \/ "vulnerabilities" \in DOMAIN f.data /\ ~f.data["vulnerabilities"].null
               \/ /\ "vulnerabilities" \notin DOMAIN f.data
                  /\ "Results" \in DOMAIN f.data /\ ~f.data["Results"].null
         [] a = "SCATrivy" -> "vulnerabilities" \in DOMAIN f.data
         [] OTHER -> TRUE

\* the risk of each record of a well-formed document, as the source gives it
RawRisks(a, f) ==
    CASE a \in {"ComplianceNessus", "VANessus", "ThreatCode"} ->
            [i \in 1..Len(f.records) |-> f.records[i]["Risk"]]
      [] a = "Semgrep" ->
            [i \in 1..Len(Get(f.data, "results", <<>>)) |-> "Medium"]
      [] a = "VATrivy" ->
            IF "vulnerabilities" \in DOMAIN f.data
            THEN [i \in 1..Len(f.data["vulnerabilities"].items) |->
                    _parse_legacy_vulnerability(f.data["vulnerabilities"].items[i],
                                                f.data).risk]
            ELSE LET recs == Flatten([i \in 1..Len(f.data["Results"].items) |->
                                modern_result_records(f.data["Results"].items[i])])
                 IN  [i \in 1..Len(recs) |-> recs[i].risk]
      [] a = "SCATrivy" ->
            [i \in 1..Len(f.data["vulnerabilities"]) |-> f.data["vulnerabilities"][i].severity]
      [] a = "BurpSuite" ->
            [i \in 1..Len(f.issues) |-> findtext(f.issues[i], "severity")]

InEnumeration(risk) == risk # Null /\ upper(risk) \in {"CRITICAL", "HIGH", "MEDIUM", "LOW"}

NineColumns ==
    <<"cve", "risk", "host", "port", "name", "description", "remediation",
      "evidence", "vpr_score">>

\* a text with its break markers read back as newlines
RECURSIVE Unbreak(_)
Unbreak(s) ==
    IF s = "" THEN ""
    ELSE IF StartsWithAt(s, "<br/>", 1) THEN "\n" \o Unbreak(SubSeq(s, 6, Len(s)))
    ELSE Char(s, 1) \o Unbreak(Tail(s))

\* a block of text without its surrounding white space
Block(t) == RStrip(LStrip(Unbreak(t)))

\* the text of a child element of an <issue>, empty when there is none
ElemText(issue, tag) ==
    IF tag \in DOMAIN issue /\ issue[tag].text # Null THEN issue[tag].text ELSE ""

\* the first value when it is not empty, otherwise the second
Preferred(first, second) == IF first # "" THEN first ELSE second

\* the file has only the modern top-level key, holding an array
ModernShape(f) ==
    /\ f.ok
    /\ "vulnerabilities" \notin DOMAIN f.data
    /\ "Results" \in DOMAIN f.data /\ ~f.data["Results"].null

\* the file has the legacy top-level key, holding an array
LegacyShape(f) ==
    /\ f.ok
    /\ "vulnerabilities" \in DOMAIN f.data /\ ~f.data["vulnerabilities"].null

\* the vulnerability entries of one target as the document lists them
TargetVulns(result) ==
    IF "Vulnerabilities" \in DOMAIN result /\ ~result["Vulnerabilities"].null
    THEN result["Vulnerabilities"].items ELSE <<>>

\* the vulnerability entries of all targets of a modern document, in order
ModernEntries(f) ==
    Flatten([i \in 1..Len(f.data["Results"].items) |-> TargetVulns(f.data["Results"].items[i])])

\* a field of a JSON object, empty when the object does not have it
Field(d, k) == IF k \in DOMAIN d THEN d[k] ELSE ""

\* the id and the severity of a legacy entry, under either spelling of the key
LegacyId(v) == Preferred(Field(v, "VulnerabilityID"), Preferred(Field(v, "id"), Field(v, "cve")))

LegacySeverity(v) == Preferred(Field(v, "Severity"), Field(v, "severity"))

\* the image a legacy entry names, empty when it names none
LegacyImage(v) == IF "location" \in DOMAIN v THEN Field(v["location"], "image") ELSE ""

\* the target whose list holds the k-th vulnerability entry of a modern document
RECURSIVE TargetOfEntry(_, _)
TargetOfEntry(results, k) ==
    IF k <= Len(TargetVulns(Head(results))) THEN Field(Head(results), "Target")
    ELSE TargetOfEntry(Tail(results), k - Len(TargetVulns(Head(results))))

\* the target's list of vulnerabilities is the JSON null
NullTarget(result) == "Vulnerabilities" \in DOMAIN result /\ result["Vulnerabilities"].null

\* the first of the values that is neither null nor empty, empty when there is none
RECURSIVE FirstNonEmpty(_)
FirstNonEmpty(vs) ==
    IF vs = <<>> THEN ""
    ELSE IF Head(vs) # Null /\ Head(vs) # "" THEN Head(vs)
    ELSE FirstNonEmpty(Tail(vs))

\* the record the row of the report handled last is mapped from
ReportSource == IF detailed # NoneDict THEN detailed ELSE reports[report_idx]

\* a field of a nested JSON object, empty when there is none
Nested(d, k1, k2) == IF k1 \in DOMAIN d /\ k2 \in DOMAIN d[k1] THEN d[k1][k2] ELSE ""

\* the criticality a report carries, at the top or under cvss
Criticality(source) == FirstNonEmpty(<<Field(source, "criticity"),
                                       Nested(source, "cvss", "criticity")>>)

\* the risk level of a criticality text, Null when it names none
RiskLevel(c) ==
    LET word == RStrip(LStrip(lower(c)))
    IN  CASE word \in {"critical", "c"} -> "CRITICAL"
          [] word \in {"high", "h"} -> "HIGH"
          [] word \in {"medium", "m"} -> "MEDIUM"
          [] word \in {"low", "l"} -> "LOW"
          [] OTHER -> Null

\* the host name of a scope: without scheme (in any letter case), path and port
Hostname(scope) ==
    IF scope \in {Null, ""} THEN ""
    ELSE LET url  == replace(RStrip(LStrip(scope)), "\\/", "/")
             rest == IF StartsWithAt(lower(url), "https://", 1)
                     THEN SubSeq(url, 9, Len(url))
                     ELSE IF StartsWithAt(lower(url), "http://", 1)
                     THEN SubSeq(url, 8, Len(url))
                     ELSE url
         IN  split_first(split_first(rest, "/"), ":")

\* the workflow state of a detailed report, from the first place that has one
WorkflowState(d) ==
    FirstNonEmpty(<<Field(d, "workflow_state"), Nested(d, "status", "workflow_state"),
                    Nested(d, "workflow", "state")>>)

\* s can be had from t by leaving elements out
RECURSIVE IsSubsequence(_, _)
IsSubsequence(s, t) ==
    IF s = <<>> THEN TRUE
    ELSE IF t = <<>> THEN FALSE
    ELSE IF Head(s) = Head(t) THEN IsSubsequence(Tail(s), Tail(t))
    ELSE IsSubsequence(s, Tail(t))

\* the reports of the pages the server gave for the first n offsets asked for
RECURSIVE PagesOf(_)
PagesOf(n) ==
    IF n = 0 THEN <<>>
    ELSE PagesOf(n - 1) \o ServerPage(server_reports, limit, page_cap, requested[n])

\* the last request of get_program_reports failed
LastFailed == requested # <<>> /\ response = NoneDict

\* ------------------------------------------------------------------------
\* C1: every row any adapter returns has risk equal to one of CRITICAL,
\* HIGH, MEDIUM, LOW.
\* ------------------------------------------------------------------------
C1_RiskInEnumeration ==
    Ok => \A i \in 1..Len(rows) : rows[i]["risk"] \in {"CRITICAL", "HIGH", "MEDIUM", "LOW"}

\* ------------------------------------------------------------------------
\* C2: the row set any adapter returns has exactly the nine canonical
\* columns, in the canonical order, whatever columns the input had.
\* ------------------------------------------------------------------------
C2_NineColumnsInOrder == Ok => columns = NineColumns

\* ------------------------------------------------------------------------
\* C3: when file_type is not accepted by the adapter, process fails with
\* ValueError before the bytes are parsed and returns no rows, also when
\* the bytes are malformed.
\* ------------------------------------------------------------------------
C3_UnsupportedTypeFailsBeforeParsing ==
    (Done /\ ~Accepts(adapter, file_type)) =>
        /\ outcome = "ValueError"
        /\ ~parsed
        /\ rows = <<>>

C3_Witness ==
    /\ Done /\ ~Accepts(adapter, file_type)
    /\ ~file.ok
    /\ outcome = "ValueError"

\* ------------------------------------------------------------------------
\* C4: each adapter accepts the short and the MIME label of its format, in
\* any letter case.
\* ------------------------------------------------------------------------
C4_LabelsAcceptedInAnyCase ==
    (Done /\ lower(file_type) \in FormatLabels(adapter)) => outcome # "ValueError"

\* ------------------------------------------------------------------------
\* C5: a well-formed input of an accepted type with zero qualifying records
\* gives an empty row set with the canonical columns, never an error.
\* ------------------------------------------------------------------------
C5_NoQualifyingRecordsGivesEmptyRowSet ==
    ( /\ Done
      /\ Accepts(adapter, file_type)
      /\ WellFormed(adapter, file)
      /\ \A i \in DOMAIN RawRisks(adapter, file) :
            IF adapter \in {"ComplianceNessus", "VANessus"}
            THEN RawRisks(adapter, file)[i] \in {Null, "None"}
            ELSE ~InEnumeration(RawRisks(adapter, file)[i]) )
    => /\ outcome = "ok"
       /\ rows = <<>>
       /\ columns = NineColumns

\* ------------------------------------------------------------------------
\* C6: in every emitted row the raw newlines of description, remediation
\* and evidence are replaced by "<br/>" and nothing else is inserted.
\* ------------------------------------------------------------------------
C6_NewlinesBecomeBreakMarkers ==
    Ok =>
      /\ \A i \in 1..Len(rows) : \A k \in {"description", "remediation", "evidence"} :
            k \in DOMAIN rows[i] => ~Contains(rows[i][k], "\n")
      /\ adapter = "VANessus" =>
            LET kept == SelectSeq(file.records, LAMBDA r : r["Risk"] \notin {Null, "None"})
            IN  \A i \in 1..Len(rows) :
                  /\ i <= Len(kept)
                  /\ rows[i]["description"] = replace_all(kept[i]["Description"], "\n", "<br/>")
                  /\ rows[i]["remediation"] = replace_all(kept[i]["Solution"], "\n", "<br/>")
                  /\ rows[i]["evidence"] = replace_all(kept[i]["Plugin Output"], "\n", "<br/>")

\* ------------------------------------------------------------------------
\* C7: a record is in the output if and only if its risk, in upper case, is
\* one of the four values; the kept rows keep the order of the input.
\* ------------------------------------------------------------------------
C7_RiskFilterKeepsExactlyTheEnumeration ==
    Ok =>
      LET kept == SelectSeq(RawRisks(adapter, file), InEnumeration)
          col  == IF adapter = "ComplianceNessus" THEN "status" ELSE "risk"
      IN  /\ Len(rows) = Len(kept)
          /\ \A i \in 1..Len(rows) : upper(rows[i][col]) = upper(kept[i])

\* ------------------------------------------------------------------------
\* C8: in both vulnerability-scanner CSV adapters the rows whose Risk is
\* the text "None" or is missing are absent from the output and every other
\* row is kept, in order.
\* ------------------------------------------------------------------------
C8_NessusDropsNoneAndMissingRisk ==
    (Ok /\ adapter \in {"ComplianceNessus", "VANessus"}) =>
      LET kept == SelectSeq(file.records, LAMBDA r : r["Risk"] # "None" /\ r["Risk"] # Null)
          col  == IF adapter = "ComplianceNessus" THEN "status" ELSE "risk"
          host == IF adapter = "ComplianceNessus" THEN "Host" ELSE "host"
      IN  /\ Len(rows) = Len(kept)
          /\ \A i \in 1..Len(rows) :
                /\ rows[i][col] = kept[i]["Risk"]
                /\ rows[i][host] = kept[i]["Host"]

C8_Witness ==
    /\ Ok /\ adapter = "VANessus"
    /\ \E i \in 1..Len(file.records) : file.records[i]["Risk"] = Null
    /\ \E i \in 1..Len(file.records) : file.records[i]["Risk"] \notin {Null, "None"}
    /\ Len(rows) = 1

\* ------------------------------------------------------------------------
\* C9: in the compliance CSV adapter, for a Description in the three-part
\* form, name is the text before ": [" on the first line, description is the
\* description block without the "Actual Value:" marker and the evidence
\* block, evidence is the block after the marker, and the input Risk is
\* carried to the output row.  Blocks are compared with the break markers
\* read back as newlines and the surrounding white space left out.
\* ------------------------------------------------------------------------
C9_ComplianceDescriptionParts ==
    (Ok /\ adapter = "ComplianceNessus") =>
      LET kept == SelectSeq(file.records, LAMBDA r : r["Risk"] \notin {Null, "None"})
      IN  /\ Len(rows) = Len(kept)
          /\ \A i \in 1..Len(rows) : \A p \in FormParts :
                kept[i]["Description"] = Compose(p) =>
                    /\ rows[i]["name"] = p.name
                    /\ rows[i]["description"] # Null
                    /\ Block(rows[i]["description"]) = Block(p.desc)
                    /\ ~Contains(rows[i]["description"], "\n")
                    /\ rows[i]["evidence"] # Null
                    /\ Block(rows[i]["evidence"]) = Block(p.evidence)
                    /\ ~Contains(rows[i]["evidence"], "\n")
                    /\ rows[i]["status"] = kept[i]["Risk"]

C9_Witness ==
    /\ Ok /\ adapter = "ComplianceNessus"
    /\ \E i \in 1..Len(rows) :
          /\ rows[i]["name"] = "SSH Weak Ciphers"
          /\ rows[i]["description"] = "d1<br/>d2<br/>"
          /\ rows[i]["evidence"] = "e1<br/>e2"
          /\ rows[i]["status"] = "High"

\* ------------------------------------------------------------------------
\* C10: in the DAST XML adapter host is the host element's text when it is
\* not empty, otherwise its ip attribute, otherwise empty; description is
\* issueBackground when not empty, otherwise issueDetail; remediation is
\* remediationBackground when not empty, otherwise remediationDetail.
\* ------------------------------------------------------------------------
C10_BurpSuiteFallbacks ==
    (Ok /\ adapter = "BurpSuite") =>
      LET kept == SelectSeq(file.issues, LAMBDA x : InEnumeration(ElemText(x, "severity")))
      IN  /\ Len(rows) = Len(kept)
          /\ \A i \in 1..Len(rows) :
                /\ rows[i]["host"] =
                      Preferred(ElemText(kept[i], "host"),
                                IF "host" \in DOMAIN kept[i] /\ "ip" \in DOMAIN kept[i]["host"].attrib
                                THEN kept[i]["host"].attrib["ip"] ELSE "")
                /\ rows[i]["description"] =
                      replace_all(Preferred(ElemText(kept[i], "issueBackground"),
                                            ElemText(kept[i], "issueDetail")), "\n", "<br/>")
                /\ rows[i]["remediation"] =
                      replace_all(Preferred(ElemText(kept[i], "remediationBackground"),
                                            ElemText(kept[i], "remediationDetail")),
                                  "\n", "<br/>")

C10_Witness ==
    /\ Ok /\ adapter = "BurpSuite"
    /\ \E i \in 1..Len(rows) : rows[i]["host"] = "10.0.0.1"
    /\ \E i \in 1..Len(rows) : rows[i]["host"] = "https://h" /\ rows[i]["description"] = "de<br/>tail"

\* ------------------------------------------------------------------------
\* C11: in the modern shape (Results array) of the dependency-scanner
\* adapter every emitted row has remediation "Upgrade to version X" where X
\* is the entry's non-empty FixedVersion, and "No fix available" when
\* FixedVersion is absent or empty; there is no other remediation value.
\* ------------------------------------------------------------------------
C11_ModernRemediation ==
    (Ok /\ adapter = "VATrivy" /\ ModernShape(file)) =>
      LET kept == SelectSeq(ModernEntries(file), LAMBDA v : InEnumeration(Field(v, "Severity")))
      IN  /\ Len(rows) = Len(kept)
          /\ \A i \in 1..Len(rows) :
                rows[i]["remediation"] =
                    IF Field(kept[i], "FixedVersion") # ""
                    THEN "Upgrade to version " \o kept[i]["FixedVersion"]
                    ELSE "No fix available"

C11_Witness ==
    /\ Ok /\ adapter = "VATrivy" /\ ModernShape(file)
    /\ \E i \in 1..Len(rows) : rows[i]["remediation"] = "Upgrade to version 1.2.3"
    /\ \E i \in 1..Len(rows) :
          rows[i]["cve"] = "CVE-6" /\ rows[i]["remediation"] = "No fix available"

\* ------------------------------------------------------------------------
\* C12: in the legacy shape (flat vulnerabilities array) remediation is
\* "Upgrade to version X" when the entry has a fixed version X and "No fix
\* available" when it has none and its solution is empty or the text "No
\* solution provided"; an empty description falls back to the entry's title.
\* ------------------------------------------------------------------------
C12_LegacyRemediationAndTitle ==
    (Ok /\ adapter = "VATrivy" /\ LegacyShape(file)) =>
      LET severity(v) == Preferred(Field(v, "Severity"), Field(v, "severity"))
          kept == SelectSeq(file.data["vulnerabilities"].items,
                            LAMBDA v : InEnumeration(severity(v)))
      IN  /\ Len(rows) = Len(kept)
          /\ \A i \in 1..Len(rows) :
                LET descr == Preferred(Field(kept[i], "Description"), Field(kept[i], "description"))
                    title == Preferred(Field(kept[i], "Title"), Field(kept[i], "title"))
                IN  /\ Field(kept[i], "FixedVersion") # "" =>
                          rows[i]["remediation"] =
                              "Upgrade to version " \o kept[i]["FixedVersion"]
                    /\ ( /\ Field(kept[i], "FixedVersion") = ""
                          /\ Field(kept[i], "solution") \in {"", "No solution provided"} ) =>
                          rows[i]["remediation"] = "No fix available"
                    /\ descr = "" => rows[i]["description"] = title

\* ------------------------------------------------------------------------
\* C13: the dependency-scanner adapter picks the shape once from the
\* top-level keys: with "vulnerabilities" (also next to "Results") every row
\* comes from a legacy entry, with only "Results" every row comes from a
\* modern entry of some target, and with neither key the call fails with a
\* ValueError and no rows; rows of the two shapes are never mixed.
\* ------------------------------------------------------------------------
C13_ShapeResolvedOnce ==
    (Done /\ adapter = "VATrivy" /\ json_accepts(file_type) /\ file.ok) =>
      /\ LegacyShape(file) =>
            LET kept == SelectSeq(file.data["vulnerabilities"].items,
                                  LAMBDA v : InEnumeration(LegacySeverity(v)))
            IN  /\ outcome = "ok"
                /\ Len(rows) = Len(kept)
                /\ \A i \in 1..Len(rows) :
                      /\ rows[i]["cve"] = LegacyId(kept[i])
                      /\ rows[i]["host"] = LegacyImage(kept[i])
      /\ ModernShape(file) =>
            LET all  == ModernEntries(file)
                idx  == SelectSeq([k \in 1..Len(all) |-> k],
                                  LAMBDA k : InEnumeration(Field(all[k], "Severity")))
            IN  /\ outcome = "ok"
                /\ Len(rows) = Len(idx)
                /\ \A i \in 1..Len(rows) :
                      /\ rows[i]["cve"] = Field(all[idx[i]], "VulnerabilityID")
                      /\ rows[i]["host"] = TargetOfEntry(file.data["Results"].items, idx[i])
      /\ ("vulnerabilities" \notin DOMAIN file.data /\ "Results" \notin DOMAIN file.data) =>
            /\ outcome = "ValueError"
            /\ rows = <<>>

C13_Witness ==
    /\ Done /\ adapter = "VATrivy" /\ outcome = "ok"
    /\ LegacyShape(file) /\ "Results" \in DOMAIN file.data
    /\ ~file.data["Results"].null
    /\ \E i \in 1..Len(file.data["Results"].items) :
          \E v \in Range(TargetVulns(file.data["Results"].items[i])) :
              InEnumeration(Field(v, "Severity"))
    /\ Len(rows) = 1 /\ rows[1]["cve"] = "CVE-1" /\ rows[1]["host"] = "img:1"
    /\ rows[1]["remediation"] = "Upgrade to 2.0"

\* ------------------------------------------------------------------------
\* C14: a target of the Results array whose list of vulnerabilities is null
\* is skipped without error: the call succeeds and returns exactly the rows
\* of the entries of the other targets, in their order.
\* ------------------------------------------------------------------------
C14_NullListSkipped ==
    ( /\ Done /\ adapter = "VATrivy" /\ json_accepts(file_type) /\ ModernShape(file)
      /\ \E i \in 1..Len(file.data["Results"].items) :
            NullTarget(file.data["Results"].items[i]) )
    => LET others == SelectSeq(file.data["Results"].items, LAMBDA r : ~NullTarget(r))
           all    == Flatten([i \in 1..Len(others) |->
                        IF "Vulnerabilities" \in DOMAIN others[i]
                        THEN others[i]["Vulnerabilities"].items ELSE <<>>])
           idx    == SelectSeq([k \in 1..Len(all) |-> k],
                               LAMBDA k : InEnumeration(Field(all[k], "Severity")))
       IN  /\ outcome = "ok"
           /\ columns = NineColumns
           /\ Len(rows) = Len(idx)
           /\ \A i \in 1..Len(rows) :
                 /\ rows[i]["cve"] = Field(all[idx[i]], "VulnerabilityID")
                 /\ rows[i]["host"] = TargetOfEntry(others, idx[i])

C14_Witness ==
    /\ Ok /\ adapter = "VATrivy" /\ ModernShape(file)
    /\ Len(file.data["Results"].items) = 2
    /\ NullTarget(file.data["Results"].items[1])
    /\ Len(rows) = 1 /\ rows[1]["cve"] = "CVE-4" /\ rows[1]["host"] = "img:1"

\* ------------------------------------------------------------------------
\* C15: in the SAST JSON adapter every entry of results gives exactly one
\* row, in order, with risk "Medium" and host "semgrep" whatever severity or
\* host the entry carries, with an empty description when the entry has no
\* extra.message, and with port equal to the entry's start line, 0 when the
\* entry has none.
\* ------------------------------------------------------------------------
C15_SemgrepFixedFields ==
    (Done /\ adapter = "Semgrep" /\ json_accepts(file_type) /\ file.ok) =>
      LET results == IF "results" \in DOMAIN file.data THEN file.data["results"] ELSE <<>>
      IN  /\ outcome = "ok"
          /\ Len(rows) = Len(results)
          /\ \A i \in 1..Len(rows) :
                /\ rows[i]["risk"] = "Medium"
                /\ rows[i]["host"] = "semgrep"
                /\ rows[i]["name"] = Field(results[i], "check_id")
                /\ rows[i]["description"] =
                      IF "extra" \in DOMAIN results[i] /\ "message" \in DOMAIN results[i]["extra"]
                      THEN replace_all(results[i]["extra"]["message"], "\n", "<br/>")
                      ELSE ""
                /\ rows[i]["port"] =
                      IF "start" \in DOMAIN results[i] /\ "line" \in DOMAIN results[i]["start"]
                      THEN results[i]["start"]["line"]
                      ELSE 0

C15_Witness ==
    /\ Ok /\ adapter = "Semgrep" /\ Len(rows) = 2
    /\ file.data["results"][1]["check_id"] = "rule.b"
    /\ file.data["results"][2]["check_id"] = "rule.c"
    /\ rows[1]["risk"] = "Medium" /\ rows[1]["description"] = "" /\ rows[1]["port"] = 3
    /\ rows[2]["host"] = "semgrep" /\ rows[2]["port"] = 0

\* ------------------------------------------------------------------------
\* C16: in the SAST CSV adapter the port of each row is the integer of the
\* first "Line: <integer>" marker of the row's plugin output, and 0 when the
\* plugin output is null, blank or without a marker; a null cve becomes the
\* empty string and a null vpr_score becomes "0".
\* ------------------------------------------------------------------------
C16_PortFromLineMarker ==
    (Ok /\ adapter = "ThreatCode") =>
      LET kept == SelectSeq(file.records, LAMBDA r : InEnumeration(r["Risk"]))
      IN  /\ Len(rows) = Len(kept)
          /\ \A i \in 1..Len(rows) :
                /\ rows[i]["port"] =
                      IF kept[i]["Plugin Output"] = Null THEN 0
                      ELSE extract_first_line_number(kept[i]["Plugin Output"])
                /\ rows[i]["cve"] =
                      IF kept[i]["CVE"] = Null THEN "" ELSE kept[i]["CVE"]
                /\ rows[i]["vpr_score"] =
                      IF kept[i][" VPR Score"] = Null THEN "0" ELSE kept[i][" VPR Score"]

\* ------------------------------------------------------------------------
\* C17: in the nested-struct dependency-scanner adapter there is one row per
\* element of the vulnerabilities array that passes the risk filter, in
\* order, and name is the first non-empty value of package name, message,
\* CVE id.
\* ------------------------------------------------------------------------
C17_NameFallbackChain ==
    (Ok /\ adapter = "SCATrivy") =>
      LET kept == SelectSeq(file.data["vulnerabilities"],
                            LAMBDA v : InEnumeration(v.severity))
      IN  /\ Len(rows) = Len(kept)
          /\ \A i \in 1..Len(rows) :
                /\ rows[i]["cve"] = kept[i].id
                /\ rows[i]["name"] =
                      FirstNonEmpty(<<kept[i].location.dependency.package.name,
                                      kept[i].message, kept[i].id>>)

\* ------------------------------------------------------------------------
\* C18: in the bug-bounty exporter a report's criticality (a full word or
\* one of the letters c, h, m, l, in any letter case, white space around it
\* ignored) gives a row whose Risk is the matching one of CRITICAL, HIGH,
\* MEDIUM, LOW; a report whose criticality is empty or not in the table
\* gives no row and is counted as skipped, and the loop goes on to the next
\* report.
\* ------------------------------------------------------------------------
C18_CriticalityMapsOrDrops ==
    (report_idx >= 1 /\ branch \in {"appended", "invalid_criticality"}) =>
      LET risk == RiskLevel(Criticality(ReportSource))
      IN  /\ risk # Null =>
                /\ branch = "appended"
                /\ csv_rows # <<>>
                /\ csv_rows[Len(csv_rows)]["Risk"] = risk
          /\ risk = Null =>
                /\ branch = "invalid_criticality"
                /\ skipped_criticality >= 1
          /\ Len(csv_rows) + skipped_criticality + skipped_status = report_idx
          /\ epc \in {"loop", "returned"}

C18_Witness ==
    /\ report_idx = 2 /\ branch = "appended"
    /\ skipped_criticality = 1
    /\ Len(csv_rows) = 1
    /\ detailed # NoneDict /\ Field(detailed, "criticity") = "\tM\n"
    /\ csv_rows[1]["Risk"] = "MEDIUM"

\* ------------------------------------------------------------------------
\* C19: the Host of an exported row is the bare host name of the report's
\* scope: the scheme (http or https, in any letter case), escaped slashes,
\* the path and the port are removed, and the result holds no "/", no ":"
\* and no scheme name.
\* ------------------------------------------------------------------------
C19_HostIsBareHostname ==
    (report_idx >= 1 /\ branch = "appended") =>
      LET host == csv_rows[Len(csv_rows)]["Host"]
      IN  /\ host = Hostname(Field(ReportSource, "scope"))
          /\ ~Contains(host, "/")
          /\ ~Contains(host, ":")
          /\ lower(host) \notin {"http", "https"}

\* ------------------------------------------------------------------------
\* C20: with filtering enabled a report is handed on to the mapping only if
\* its detailed record has workflow state "accepted" (in any letter case,
\* read from workflow_state, else status.workflow_state, else
\* workflow.state) and ask_for_fix_verification_status exactly "PENDING"; a
\* report with only one of the two is skipped.
\* ------------------------------------------------------------------------
C20_FilterNeedsBothStatusFields ==
    (apply_filter /\ report_idx >= 1) =>
      LET both == /\ detailed # NoneDict
                  /\ lower(WorkflowState(detailed)) = "accepted"
                  /\ Field(detailed, "ask_for_fix_verification_status") = "PENDING"
      IN  /\ branch \in {"appended", "invalid_criticality"} <=> both
          /\ ~both => branch \in {"filtered", "not_fetched"}
          /\ \A i \in 1..Len(output_file.rows) : output_file.rows[i] = csv_rows[i]

C20_Witness ==
    /\ apply_filter /\ report_idx = 2 /\ branch = "filtered"
    /\ Len(csv_rows) = 1 /\ skipped_status = 1
    /\ Field(detailed, "workflow_state") = "accepted"
    /\ Field(detailed, "ask_for_fix_verification_status") = "DONE"

\* ------------------------------------------------------------------------
\* C26: in export_reports_to_csv every report handled so far has ended in
\* exactly one of three outcomes, a row, a criticality skip or a status
\* skip, so the rows and the two counters add up to the number of reports
\* handled, and after the loop to the number of input reports; the rows
\* follow the order of the input; when there is no row the function
\* returns False and the output file is neither created nor written.
\* ------------------------------------------------------------------------
C26_EveryReportCounted ==
    /\ (epc \in {"loop", "returned"} /\ reports # <<>>) =>
          /\ Len(csv_rows) + skipped_criticality + skipped_status = report_idx
          /\ (report_idx >= 1) =>
                (branch = "appended" => csv_rows # <<>> /\
                    csv_rows[Len(csv_rows)]["Name"] = Field(ReportSource, "title"))
          /\ IsSubsequence([i \in 1..Len(csv_rows) |-> csv_rows[i]["Name"]],
                           [i \in 1..report_idx |-> reports[i]["title"]])
    /\ epc = "returned" =>
          /\ reports # <<>> => report_idx = Len(reports)
          /\ csv_rows = <<>> => export_result = "False" /\ output_file = NoFile
          /\ output_file.exists => output_file.rows = csv_rows

C26_Witness ==
    /\ epc = "returned" /\ Len(reports) = 2
    /\ csv_rows = <<>> /\ skipped_criticality = 1 /\ skipped_status = 1
    /\ export_result = "False" /\ output_file = NoFile

\* ------------------------------------------------------------------------
\* C24: a report whose detail fetch failed during export_reports_to_csv is
\* not lost: it is mapped from its summary data and gives a row whenever
\* the criticality of the summary is valid, with status filtering enabled
\* or not.
\* ------------------------------------------------------------------------
C24_FailedFetchUsesSummary ==
    (report_idx >= 1 /\ fetch_details /\ detailed = NoneDict
       /\ Truthy(Or(Get(reports[report_idx], "id", Null),
                    Get(reports[report_idx], "local_id", "")))
       /\ RiskLevel(Criticality(reports[report_idx])) # Null) =>
      /\ branch = "appended"
      /\ csv_rows[Len(csv_rows)]["Name"] = reports[report_idx]["title"]

\* ------------------------------------------------------------------------
\* C21: the exporter never exports unfiltered data when filtering is asked
\* for and the details were not fetched: in export_reports_to_csv with
\* apply_filter true a report without a fetched detailed record gives no
\* row (it is counted as a status skip), and main answers the conflict of
\* filtering with --no-details by a warning and by forcing fetch_details
\* to true before it calls the export.
\* ------------------------------------------------------------------------
C21_NoUnfilteredExport ==
    /\ (apply_filter /\ report_idx >= 1 /\ detailed = NoneDict) =>
          /\ branch = "not_fetched"
          /\ skipped_status >= 1
          /\ Len(csv_rows) + skipped_criticality + skipped_status = report_idx
    /\ (apply_filter /\ ~fetch_details) =>
          /\ csv_rows = <<>>
          /\ ~output_file.exists
          /\ epc = "returned" => export_result = "False"
    /\ (caller = "main" /\ epc \notin {"main", "exited"}) =>
          /\ apply_filter = ~no_filter
          /\ conflict_warned <=> (~no_filter /\ no_details)
          /\ fetch_details <=> (~no_details \/ ~no_filter)
    /\ (caller = "main" /\ epc = "main") => ~conflict_warned /\ report_idx = 0

C21_Witness ==
    /\ caller = "main" /\ no_details /\ ~no_filter
    /\ conflict_warned /\ fetch_details /\ apply_filter
    /\ report_idx = 2 /\ branch = "not_fetched" /\ Len(csv_rows) = 1

\* ------------------------------------------------------------------------
\* C22: when every page request succeeds, get_program_reports returns every
\* report the server holds for the program, exactly once and in the order
\* of the server, for any limit, any number of reports, any page length the
\* server returns, with or without a pagination total in the response.
\* ------------------------------------------------------------------------
C22_ReturnsAllReports ==
    (gpc = "returned" /\ ~LastFailed /\ server_reports # <<>>) =>
      program_reports = List(server_reports)

C25_OffsetsAndEnd ==
    LET total == IF has_total THEN Len(server_reports) ELSE 0
    IN  /\ \A i \in 1..Len(requested) : requested[i] = (i - 1) * limit
        /\ \A i \in 1..(Len(requested) - 1) : requested[i] < requested[i + 1]
        /\ gpc = "loop" => offset = Len(requested) * limit
        /\ (gpc = "loop" /\ requested # <<>>) =>
              /\ response # NoneDict
              /\ response.items # <<>>
              /\ Len(all_reports) < total
        /\ gpc = "returned" =>
              \/ response = NoneDict
              \/ response.items = <<>>
              \/ Len(all_reports) >= total

C25_Terminates == [](C25_OffsetsAndEnd) /\ <>(gpc = "returned")

C25_Witness ==
    /\ gpc = "returned"
    /\ requested = <<0, 2, 4>>
    /\ response # NoneDict /\ response.items = <<>>
    /\ Len(server_reports) = 3

====
